---- MODULE Spec2Model ----
(***************************************************************************)
(* A model of the RAG insurance chatbot: the RAGSystem orchestrator        *)
(* (src/src/generation/rag_system.py) over the RetrievalService and the    *)
(* Pinecone vector store, and the ChunkingStrategy of the processing       *)
(* pipeline (src/src/processing/chunking_strategy.py).                     *)
(*                                                                         *)
(* Spec       the orchestrator: initialize_system, reindex_documents,      *)
(*            clear_index, query and stream_query over one namespace.      *)
(* SpecChunk  chunk_document called once on a text put together from a few *)
(*            segments (clause headers, a section marker, sub-clause       *)
(*            markers, white space, filler).                               *)
(* SpecClassify  _classify_clause_type called once on a content put        *)
(*            together from keywords of the three patterns.                *)
(* SpecGenerate  one call of ResponseGenerator.generate_response or        *)
(*            generate_streaming_response.                                 *)
(* SpecBatch  one call of DocumentProcessor.process_documents_batch.       *)
(* SpecPii, SpecSanitize, SpecLimits  one call of detect_and_mask_pii,     *)
(*            sanitize_content, check_resource_limits of SecurityValidator.*)
(* SpecSecurity  the checks of one SecurityValidator and its audit log,    *)
(*            and the ingestion of documents through it.                   *)
(* SpecEncode  one call of EmbeddingService.encode_batch.                  *)
(* SpecSplit  _split_long_clause or the fixed-size chunking called once on *)
(*            a clause text longer than chunk_size.                        *)
(* SpecSearch  one call of PineconeVectorStore.search.                     *)
(* SpecUpsert  one call of PineconeVectorStore.add_documents.              *)
(* SpecStream  one streaming query, from the provider's deltas to the      *)
(*            events the route sends.                                      *)
(* SpecLoop   the fixed-size chunking loop, one iteration per step, under  *)
(*            every chunk_size / chunk_overlap pair the configuration      *)
(*            accepts.                                                     *)
(* SpecRoutes  concurrent requests resolving get_rag_system.               *)
(***************************************************************************)
EXTENDS Integers, Sequences, FiniteSets, TLC

(***************************************************************************)
(* Bounds of the model.                                                    *)
(***************************************************************************)
\* A source file yields at most this many chunks.
MaxChunks == 3
\* Chunk ids (uuid4 values) are drawn in order from 1..MaxUuid.
MaxUuid == 4
\* Vectors per upsert call.  The code's limit is 100 (vector_store.py:164);
\* the model scales it down so that one ingest spans several batches.
batch_size == 2
\* retrieval.top_k of the configuration (5 by default, config.py:57), scaled.
config_top_k == 2

\* retrieval.similarity_threshold, in hundredths (0.8).
similarity_threshold == 80

\* The raw similarity scores the index may report, in hundredths.  Cosine
\* similarity ranges over [-1, 1]; 120 stands for a provider that reports a
\* score above 1.
RawScores == {-20, 79, 80, 120}

(***************************************************************************)
(* The orchestrator's state.                                               *)
(***************************************************************************)
VARIABLES
    is_initialized,   \* RAGSystem._is_initialized
    namespace,        \* the vectors of the configured Pinecone namespace
    next_uuid,        \* how many uuid4 values have been generated
    ever_ready,       \* history: some ingest call has returned with the system Ready
    op,               \* the last call made
    outcome,          \* how it ended
    calls,            \* the external calls it made, in order
    pre_initialized,  \* _is_initialized when it was called
    pre_namespace,    \* the namespace when it was called
    upsert_reported,  \* the sum of the upserted_count values it was given
    raw_matches,      \* the raw scores index.query gave it
    returned,         \* the matches a query returned
    blank_question,   \* whether the question of that query was empty or white space
    \* ChunkingStrategy.chunk_document, one call:
    text,               \* the text passed
    preserve_structure, \* the flag passed
    chunk_pc,           \* "idle", "called" or "returned"
    chunked,            \* what the call gave: raised, chunks, path
    \* ChunkingStrategy._classify_clause_type, one call:
    clause_content,   \* the content passed
    class_pc,         \* "idle", "called" or "returned"
    clause_type_returned,  \* the label returned
    \* ResponseGenerator, one call of generate_response or
    \* generate_streaming_response: pc, retrieved_documents (their scores), the
    \* finish reason the completion provider reported, the method called,
    \* whether it raised, and the confidence of the response.
    generator,
    \* DocumentProcessor.process_documents_batch, one call: pc, the files of the
    \* directory (what loading and processing each one gives), the stats
    \* returned and the files process_document was called on.
    batch_run,
    \* SecurityValidator.detect_and_mask_pii, one call: pc, the content, the
    \* enable_pii_detection flag, the masked content and the kinds found.
    pii,
    \* SecurityValidator.sanitize_content, one call: pc, the content passed and
    \* the content returned.
    sanitizer,
    \* SecurityValidator.check_resource_limits, one call: pc, the content and
    \* whether it is within the limits.
    limits,
    \* A SecurityValidator over its calls: enable_security_logging,
    \* audit_events, the last check called, the audit_events before it, its
    \* result, and the steps of the last ingestion.
    validator,
    \* EmbeddingService.encode_batch, one call: pc, the texts and what it gave.
    encoder,
    \* routes.py: the global rag_system, the RAGSystem instances constructed,
    \* and each request's position in get_rag_system with what it was given.
    routes

ragvars == <<is_initialized, namespace, next_uuid, ever_ready, op, outcome, calls,
             pre_initialized, pre_namespace, upsert_reported, raw_matches, returned,
             blank_question>>

chunkvars == <<text, preserve_structure, chunk_pc, chunked>>

classvars == <<clause_content, class_pc, clause_type_returned>>

\* The components modelled one call at a time.
latervars == <<generator, batch_run, pii, sanitizer, limits, validator, encoder, routes>>

vars == <<ragvars, chunkvars, classvars, latervars>>

NoChunks == [raised |-> FALSE, chunks |-> <<>>, path |-> "none"]

\* No chunk_document call is being made.
ChunkIdle ==
    /\ text = <<>>
    /\ preserve_structure = TRUE
    /\ chunk_pc = "idle"
    /\ chunked = NoChunks

\* No _classify_clause_type call is being made.
ClassIdle ==
    /\ clause_content = <<>>
    /\ class_pc = "idle"
    /\ clause_type_returned = "none"

GeneratorIdle ==
    generator = [pc |-> "idle", docs |-> <<>>, finish |-> "stop", method |-> "none",
                 raised |-> FALSE, confidence |-> [num |-> 0, den |-> 1]]

NoStats == [total_documents |-> 0, processed_documents |-> 0, failed_documents |-> 0,
            errors |-> <<>>]

BatchIdle ==
    batch_run = [pc |-> "idle", files |-> <<>>, listed |-> FALSE, stats |-> NoStats,
                 attempted |-> <<>>]

Idle == [pc |-> "idle"]

\* Every component of latervars but c is idle.
IdleExcept(c) ==
    /\ (c = "generator" \/ GeneratorIdle)
    /\ (c = "batch_run" \/ BatchIdle)
    /\ (c = "pii" \/ pii = Idle)
    /\ (c = "sanitizer" \/ sanitizer = Idle)
    /\ (c = "limits" \/ limits = Idle)
    /\ (c = "validator" \/ validator = Idle)
    /\ (c = "encoder" \/ encoder = Idle)
    /\ (c = "routes" \/ routes = Idle)

LaterIdle == IdleExcept("none")

earliervars == <<ragvars, chunkvars, classvars>>

(***************************************************************************)
(* Source files.  A file that does not exist cannot be loaded; a file that *)
(* exists is processed into file.chunks chunks (0..MaxChunks), the same    *)
(* chunks on every run.                                                    *)
(***************************************************************************)
Files == {[exists |-> FALSE, chunks |-> 0]}
         \cup {[exists |-> TRUE, chunks |-> n] : n \in 0 .. MaxChunks}

ChunkCount(file) == IF file.exists THEN file.chunks ELSE 0

\* ChunkingStrategy._create_chunk: every chunk gets a fresh uuid4 as chunk_id.
create_chunk(file, j, uuid) == [id |-> uuid + j, file |-> file, chunk |-> j]

\* DocumentProcessor.process_document: the chunks of a file, in order.
process_document(file, uuid) ==
    [j \in 1 .. ChunkCount(file) |-> create_chunk(file, j, uuid)]

(***************************************************************************)
(* PineconeVectorStore.add_documents.                                      *)
(***************************************************************************)
\* What one index.upsert call may do: write the batch and report its size,
\* report nothing written, write only the first vector and report 1, or raise.
UpsertOutcomes == {"ok", "zero", "partial", "raise"}

\* index.upsert of one vector: a vector with the same id is overwritten.
UpsertVector(ns, v) == {w \in ns : w.id # v.id} \cup {v}

RECURSIVE UpsertAll(_, _)
UpsertAll(ns, batch) ==
    IF batch = <<>> THEN ns
    ELSE UpsertAll(UpsertVector(ns, Head(batch)), Tail(batch))

\* The namespace and the upserted_count after one index.upsert call.
IndexUpsert(ns, batch, out) ==
    CASE out = "ok"      -> [ns |-> UpsertAll(ns, batch), count |-> Len(batch)]
      [] out = "partial" -> [ns |-> UpsertVector(ns, Head(batch)), count |-> 1]
      [] OTHER           -> [ns |-> ns, count |-> 0]

Min(a, b) == IF a <= b THEN a ELSE b

NumBatches(n) == (n + batch_size - 1) \div batch_size

\* The batch loop, from batch i on: the response decides whether the ids of the
\* whole batch are added to added_ids; an exception ends the loop.
RECURSIVE UpsertBatches(_, _, _, _, _, _)
UpsertBatches(ns, docs, outs, i, added, reported) ==
    IF i > NumBatches(Len(docs))
    THEN [raised |-> FALSE, ns |-> ns, added_ids |-> added, reported |-> reported]
    ELSE LET batch == SubSeq(docs, (i - 1) * batch_size + 1,
                             Min(i * batch_size, Len(docs)))
             r     == IndexUpsert(ns, batch, outs[i])
         IN  IF outs[i] = "raise"
             THEN [raised |-> TRUE, ns |-> ns, added_ids |-> added,
                   reported |-> reported]
             ELSE UpsertBatches(r.ns, docs, outs, i + 1,
                      IF r.count > 0
                      THEN added \o [k \in 1 .. Len(batch) |-> batch[k].id]
                      ELSE added,
                      reported + r.count)

add_documents(ns, docs, outs) ==
    IF docs = <<>>
    THEN [raised |-> FALSE, ns |-> ns, added_ids |-> <<>>, reported |-> 0]
    ELSE UpsertBatches(ns, docs, outs, 1, <<>>, 0)

(***************************************************************************)
(* RetrievalService.index_documents_from_file.                             *)
(***************************************************************************)
\* "len(indexed_ids) >= 0": successful whatever was written.
processing_successful_always(indexed_ids) == Len(indexed_ids) >= 0

processing_successful(indexed_ids) == Len(indexed_ids) > 0

index_documents_from_file(ns, uuid, file, embed_ok, outs) ==
    IF ~file.exists
    THEN \* load_document raises
         [raised |-> TRUE, ns |-> ns, uuid |-> uuid, calls |-> <<>>,
          reported |-> 0, successful |-> FALSE]
    ELSE LET documents == process_document(file, uuid)
             uuid2     == uuid + Len(documents)
         IN  IF documents = <<>>
             THEN \* "No documents extracted from file"
                  [raised |-> TRUE, ns |-> ns, uuid |-> uuid2, calls |-> <<>>,
                   reported |-> 0, successful |-> FALSE]
             ELSE IF ~embed_ok
             THEN \* encode_batch raises
                  [raised |-> TRUE, ns |-> ns, uuid |-> uuid2,
                   calls |-> <<"embed">>, reported |-> 0, successful |-> FALSE]
             ELSE LET a == add_documents(ns, documents, outs)
                  IN  [raised |-> a.raised, ns |-> a.ns, uuid |-> uuid2,
                       calls |-> <<"embed", "upsert">>, reported |-> a.reported,
                       successful |-> (~a.raised) /\ processing_successful(a.added_ids)]

(***************************************************************************)
(* PineconeVectorStore.clear_namespace / RetrievalService.clear_index.     *)
(***************************************************************************)
clear_namespace(ns, clear_ok) == IF clear_ok THEN {} ELSE ns

(***************************************************************************)
(* RAGSystem.initialize_system and reindex_documents.                      *)
(***************************************************************************)
\* The except branch marks the system initialized instead of resetting it.
initialize_system_state_sets_ready(raised, successful, before) ==
    IF raised THEN TRUE ELSE successful

\* _is_initialized after initialize_system: the except branch resets it.
initialize_system_state(raised, successful, before) ==
    IF raised THEN FALSE ELSE successful

\* _is_initialized after reindex_documents: the except branch leaves it alone.
reindex_documents_state(raised, successful, before) ==
    IF raised THEN before ELSE successful

RagInit ==
    /\ is_initialized = FALSE
    /\ namespace = {}
    /\ next_uuid = 0
    /\ ever_ready = FALSE
    /\ op = "none"
    /\ outcome = "none"
    /\ calls = <<>>
    /\ pre_initialized = FALSE
    /\ pre_namespace = {}
    /\ upsert_reported = 0
    /\ raw_matches = <<>>
    /\ returned = <<>>
    /\ blank_question = FALSE

Init == RagInit /\ ChunkIdle /\ ClassIdle /\ LaterIdle

\* The orchestrator, the chunker and the classifier before any call.
EarlierIdle == RagInit /\ ChunkIdle /\ ClassIdle

Ingested(name, r, ready, pre_calls) ==
    /\ op' = name
    /\ outcome' = IF r.raised THEN "error" ELSE "ok"
    /\ calls' = pre_calls \o r.calls
    /\ is_initialized' = ready
    /\ namespace' = r.ns
    /\ next_uuid' = r.uuid
    /\ ever_ready' = (ever_ready \/ ((~r.raised) /\ ready))
    /\ pre_initialized' = is_initialized
    /\ pre_namespace' = namespace
    /\ upsert_reported' = r.reported
    /\ raw_matches' = <<>>
    /\ blank_question' = FALSE
    /\ returned' = <<>>
    /\ UNCHANGED <<chunkvars, classvars, latervars>>

initialize_system(file, embed_ok, outs) ==
    /\ next_uuid + ChunkCount(file) <= MaxUuid
    /\ LET r == index_documents_from_file(namespace, next_uuid, file, embed_ok, outs)
       IN  Ingested("initialize_system", r,
                    initialize_system_state(r.raised, r.successful, is_initialized),
                    <<>>)

reindex_documents(file, clear_ok, embed_ok, outs) ==
    /\ next_uuid + ChunkCount(file) <= MaxUuid
    /\ LET cleared == clear_namespace(namespace, clear_ok)
           r == index_documents_from_file(cleared, next_uuid, file, embed_ok, outs)
       IN  Ingested("reindex_documents", r,
                    reindex_documents_state(r.raised, r.successful, is_initialized),
                    <<"clear">>)

(***************************************************************************)
(* The route DELETE /index: RetrievalService.clear_index on the shared     *)
(* RAGSystem.  _is_initialized is not touched.                             *)
(***************************************************************************)
clear_index(clear_ok) ==
    /\ op' = "clear_index"
    /\ outcome' = IF clear_ok THEN "ok" ELSE "error"
    /\ calls' = <<"clear">>
    /\ namespace' = clear_namespace(namespace, clear_ok)
    /\ pre_initialized' = is_initialized
    /\ pre_namespace' = namespace
    /\ upsert_reported' = 0
    /\ raw_matches' = <<>>
    /\ blank_question' = FALSE
    /\ returned' = <<>>
    /\ UNCHANGED <<is_initialized, next_uuid, ever_ready, chunkvars, classvars,
                   latervars>>

(***************************************************************************)
(* Queries.  A question is a short string over a blank and a letter.       *)
(***************************************************************************)
Questions == {<<>>, <<" ">>, <<"q">>, <<" ", "q">>}

IsSpace(c) == c \in {" ", "\n", "\t", "\r"}

\* str.strip(): leading and trailing whitespace removed.
RECURSIVE LStrip(_)
LStrip(s) == IF s # <<>> /\ IsSpace(Head(s)) THEN LStrip(Tail(s)) ELSE s

RECURSIVE RStrip(_)
RStrip(s) ==
    IF s # <<>> /\ IsSpace(s[Len(s)]) THEN RStrip(SubSeq(s, 1, Len(s) - 1)) ELSE s

Strip(s) == RStrip(LStrip(s))

\* "not question or not question.strip()"
IsBlank(s) == s = <<>> \/ Strip(s) = <<>>

\* The answers index.query may give for top_k = k: at most k matches, no more
\* than the namespace holds, by descending score.
RawMatches(ns, k) ==
    {raw \in UNION {[1 .. n -> RawScores] : n \in 0 .. Min(k, Cardinality(ns))} :
        \A i \in 1 .. Len(raw) - 1 : raw[i] >= raw[i + 1]}

\* The filter dropped: every ranked result is returned.
ThresholdFilter_unfiltered(results) == results

\* PineconeVectorStore.search, the threshold filter on the ranked results.
ThresholdFilter(results) == SelectSeq(results, LAMBDA r : r.score >= similarity_threshold)

\* The ranks counted from 0.
search_rank_from_zero(raw) ==
    ThresholdFilter([i \in 1 .. Len(raw) |-> [score |-> raw[i], rank |-> i - 1]])

\* PineconeVectorStore.search after index.query has answered: each raw match
\* gets the rank of its position, then the results are filtered.
search(raw) ==
    ThresholdFilter([i \in 1 .. Len(raw) |-> [score |-> raw[i], rank |-> i]])

\* A call that raises before any collaborator is called.
Rejected(how) == [outcome |-> how, calls |-> <<>>, raw |-> <<>>, returned |-> <<>>]

\* search_documents without its guard on the query: the embedding provider is
\* asked whatever the question.
search_and_generate_unguarded(question, raw, fail) ==
    IF fail = "embed"
    THEN [outcome |-> "error", calls |-> <<"embed">>, raw |-> <<>>,
          returned |-> <<>>]
    ELSE IF fail = "search"
    THEN [outcome |-> "error", calls |-> <<"embed", "search">>, raw |-> <<>>,
          returned |-> <<>>]
    ELSE IF fail = "llm"
    THEN [outcome |-> "error", calls |-> <<"embed", "search", "llm">>,
          raw |-> raw, returned |-> <<>>]
    ELSE [outcome |-> "ok", calls |-> <<"embed", "search", "llm">>,
          raw |-> raw, returned |-> search(raw)]

\* RetrievalService.search_documents, then the response generator.
\* fail names the external call that raises ("none": no call raises).
search_and_generate(question, raw, fail) ==
    IF IsBlank(question)
    THEN Rejected("error")
    ELSE IF fail = "embed"
    THEN [outcome |-> "error", calls |-> <<"embed">>, raw |-> <<>>,
          returned |-> <<>>]
    ELSE IF fail = "search"
    THEN [outcome |-> "error", calls |-> <<"embed", "search">>, raw |-> <<>>,
          returned |-> <<>>]
    ELSE IF fail = "llm"
    THEN [outcome |-> "error", calls |-> <<"embed", "search", "llm">>,
          raw |-> raw, returned |-> <<>>]
    ELSE [outcome |-> "ok", calls |-> <<"embed", "search", "llm">>,
          raw |-> raw, returned |-> search(raw)]

\* RAGSystem.query: the guard on _is_initialized.
query_not_initialized(initialized) == ~initialized

Answered(name, question, r) ==
    /\ op' = name
    /\ blank_question' = IsBlank(question)
    /\ outcome' = r.outcome
    /\ calls' = r.calls
    /\ returned' = r.returned
    /\ raw_matches' = r.raw
    /\ pre_initialized' = is_initialized
    /\ pre_namespace' = namespace
    /\ upsert_reported' = 0
    /\ UNCHANGED <<is_initialized, namespace, next_uuid, ever_ready, chunkvars,
                   classvars, latervars>>

query(question, top_k, raw, fail) ==
    Answered("query", question,
        IF query_not_initialized(is_initialized)
        THEN Rejected("not_initialized")
        ELSE IF IsBlank(question)
        THEN Rejected("empty_question")
        ELSE search_and_generate(Strip(question), raw, fail))

\* RAGSystem.stream_query, run to the end of the generator.
stream_query(question, top_k, raw, fail) ==
    Answered("stream_query", question,
        IF query_not_initialized(is_initialized)
        THEN Rejected("not_initialized")
        ELSE search_and_generate(Strip(question), raw, fail))

\* What the collaborators of one query do: one of them raises, or none does
\* and the index gives a raw answer.
Externals(ns, k) ==
    {[fail |-> f, raw |-> <<>>] : f \in {"embed", "search", "llm"}}
    \cup {[fail |-> "none", raw |-> raw] : raw \in RawMatches(ns, k)}

\* "k = top_k or self.config.retrieval.top_k": top_k = 0 stands for None.
EffectiveTopK(top_k) == IF top_k = 0 THEN config_top_k ELSE top_k

Next ==
    \/ \E file \in Files, embed_ok \in BOOLEAN :
         \E outs \in [1 .. NumBatches(ChunkCount(file)) -> UpsertOutcomes] :
            initialize_system(file, embed_ok, outs)
    \/ \E file \in Files, clear_ok \in BOOLEAN, embed_ok \in BOOLEAN :
         \E outs \in [1 .. NumBatches(ChunkCount(file)) -> UpsertOutcomes] :
            reindex_documents(file, clear_ok, embed_ok, outs)
    \/ \E clear_ok \in BOOLEAN : clear_index(clear_ok)
    \/ \E question \in Questions, top_k \in 0 .. config_top_k :
         \E ext \in Externals(namespace, EffectiveTopK(top_k)) :
            query(question, top_k, ext.raw, ext.fail)
    \/ \E question \in Questions, top_k \in 0 .. config_top_k :
         \E ext \in Externals(namespace, EffectiveTopK(top_k)) :
            stream_query(question, top_k, ext.raw, ext.fail)

Spec == Init /\ [][Next]_vars

(***************************************************************************)
(* Properties of the orchestrator (checked under Spec).                    *)
(***************************************************************************)
IsQuery == op \in {"query", "stream_query"}
IsIngest == op \in {"initialize_system", "reindex_documents"}

\* C1: a query or streaming query made while no initialize_system or
\* reindex_documents call has yet left the system Ready fails with the
\* "not initialized" error, and no embedding, index or completion call is made.
C1_NotReadyGuard ==
    (IsQuery /\ ~ever_ready) => (outcome = "not_initialized" /\ calls = <<>>)

\* A query rejected after an ingest attempt that did not make the system Ready.
C1_Witness ==
    IsQuery /\ ~ever_ready /\ next_uuid > 0 /\ outcome = "not_initialized"

\* C2: every match a query returns has a score at or above the similarity
\* threshold, whatever the index answered.
C2_ThresholdEnforced ==
    IsQuery => \A i \in 1 .. Len(returned) : returned[i].score >= similarity_threshold

\* A query that returned a match and dropped another one below the threshold.
C2_Witness ==
    IsQuery /\ outcome = "ok" /\ Len(returned) >= 1 /\ Len(raw_matches) > Len(returned)

\* C3: after an ingest call that failed, the readiness is the one that
\* preceded the call.
C3_FailedIngestKeepsReadiness ==
    (IsIngest /\ outcome = "error") => is_initialized = pre_initialized

\* C4: an ingest call that returns normally leaves the system Ready exactly
\* when its upsert step reported at least one vector written.
C4_ReadyIffVectorWritten ==
    (IsIngest /\ outcome = "ok") => (is_initialized <=> upsert_reported > 0)

\* A Ready system re-ingests, the index reports nothing written, and the
\* system is no longer Ready.
C4_Witness ==
    IsIngest /\ outcome = "ok" /\ pre_initialized /\ upsert_reported = 0
    /\ ~is_initialized

\* C5: after reindex_documents returns successfully no vector that was in the
\* namespace before the call is still there.
C5_ReindexDestroysOldVectors ==
    (op = "reindex_documents" /\ outcome = "ok") => namespace \cap pre_namespace = {}

\* C6: the index holds one vector per chunk of a source, however often the
\* source was ingested.
C6_OneVectorPerChunk ==
    \A v, w \in namespace : (v.file = w.file /\ v.chunk = w.chunk) => v = w


(***************************************************************************)
(* Texts.  A text is a sequence of characters; a character is a string: an *)
(* ASCII character stands for itself and "U+XXXX" for the character of     *)
(* that code point.  Positions are Python's: 0-based, a slice t[a:b] holds *)
(* the characters at a .. b-1.                                             *)
(***************************************************************************)
Slice(t, a, b) == SubSeq(t, a + 1, b)

At(t, p) == t[p + 1]

IsDigit(c) == c \in {"0", "1", "2", "3", "4", "5", "6", "7", "8", "9"}

\* [U+4E00 U+4E8C U+4E09 U+56DB U+4E94 U+516D U+4E03 U+516B U+4E5D U+5341]:
\* the numerals one to ten.
IsNumeral(c) ==
    c \in {"U+4E00", "U+4E8C", "U+4E09", "U+56DB", "U+4E94", "U+516D", "U+4E03",
           "U+516B", "U+4E5D", "U+5341"}

\* [U+58F9 U+8CB3 U+53C3 U+8086 U+4F0D U+9678 U+67D2 U+634C U+7396 U+62FE]:
\* the formal numerals one to ten.
IsFormalNumeral(c) ==
    c \in {"U+58F9", "U+8CB3", "U+53C3", "U+8086", "U+4F0D", "U+9678", "U+67D2",
           "U+634C", "U+7396", "U+62FE"}

\* \s* from p: the first position at or after p that holds no whitespace.
RECURSIVE SkipSpace(_, _)
SkipSpace(t, p) ==
    IF p < Len(t) /\ IsSpace(At(t, p)) THEN SkipSpace(t, p + 1) ELSE p

\* \d* from p.
RECURSIVE SkipDigits(_, _)
SkipDigits(t, p) ==
    IF p < Len(t) /\ IsDigit(At(t, p)) THEN SkipDigits(t, p + 1) ELSE p

RECURSIVE SkipNumerals(_, _)
SkipNumerals(t, p) ==
    IF p < Len(t) /\ IsNumeral(At(t, p)) THEN SkipNumerals(t, p + 1) ELSE p

RECURSIVE SkipFormalNumerals(_, _)
SkipFormalNumerals(t, p) ==
    IF p < Len(t) /\ IsFormalNumeral(At(t, p)) THEN SkipFormalNumerals(t, p + 1)
    ELSE p

\* [^\n]* from p: the end of the line.
RECURSIVE SkipLine(_, _)
SkipLine(t, p) ==
    IF p < Len(t) /\ At(t, p) # "\n" THEN SkipLine(t, p + 1) ELSE p

\* (?:\.\d+)* from p, p being the end of a run of digits.
RECURSIVE SkipSubNumbers(_, _)
SkipSubNumbers(t, p) ==
    IF p + 1 < Len(t) /\ At(t, p) = "." /\ IsDigit(At(t, p + 1))
    THEN SkipSubNumbers(t, SkipDigits(t, p + 1))
    ELSE p

\* ^ under re.MULTILINE: the start of the text or of a line.
LineStart(t, p) == p = 0 \/ At(t, p - 1) = "\n"

NoMatch == [ok |-> FALSE, start |-> 0, end |-> 0, number |-> <<>>, title |-> <<>>]

Match(start, end, number, title) ==
    [ok |-> TRUE, start |-> start, end |-> end, number |-> number, title |-> title]

\* clause_header_pattern, U+7B2C \s* (\d+(?:\.\d+)*) \s* U+689D \s* ([^\n]*),
\* matched at p.  Every quantifier is greedy and none can give a character
\* back to a later part of the pattern, so the match at p is unique.
clause_header_at(t, p) ==
    IF ~(p < Len(t) /\ At(t, p) = "U+7B2C") THEN NoMatch
    ELSE LET a == SkipSpace(t, p + 1)
         IN  IF ~(a < Len(t) /\ IsDigit(At(t, a))) THEN NoMatch
             ELSE LET b == SkipSubNumbers(t, SkipDigits(t, a))
                      c == SkipSpace(t, b)
                  IN  IF ~(c < Len(t) /\ At(t, c) = "U+689D") THEN NoMatch
                      ELSE LET d == SkipSpace(t, c + 1)
                               e == SkipLine(t, d)
                           IN  Match(p, e, Slice(t, a, b), Slice(t, d, e))

\* The end of a sub-clause marker starting at a, or -1:
\* U+FF08 [numerals]+ U+FF09 | \( [numerals]+ \) | \d+ [\.\) U+3001]
sub_clause_marker_end(t, a) ==
    IF ~(a < Len(t)) THEN -1
    ELSE IF At(t, a) \in {"U+FF08", "("}
    THEN LET b == SkipNumerals(t, a + 1)
         IN  IF b > a + 1 /\ b < Len(t)
                /\ At(t, b) = (IF At(t, a) = "(" THEN ")" ELSE "U+FF09")
             THEN b + 1 ELSE -1
    ELSE IF IsDigit(At(t, a))
    THEN LET b == SkipDigits(t, a)
         IN  IF b < Len(t) /\ At(t, b) \in {".", ")", "U+3001"} THEN b + 1 ELSE -1
    ELSE -1

\* sub_clause_pattern, ^[\s]*(marker) under re.MULTILINE, matched at p.
sub_clause_at(t, p) ==
    IF ~LineStart(t, p) THEN NoMatch
    ELSE LET e == sub_clause_marker_end(t, SkipSpace(t, p))
         IN  IF e = -1 THEN NoMatch
             ELSE Match(p, e, <<>>, <<>>)

\* The end of a section marker starting at a, or -1:
\* U+7B2C [numerals]+ [U+7AE0 U+7BC0 U+90E8] | [formal numerals]+ [\s]* U+3001
section_marker_end(t, a) ==
    IF ~(a < Len(t)) THEN -1
    ELSE IF At(t, a) = "U+7B2C"
    THEN LET b == SkipNumerals(t, a + 1)
         IN  IF b > a + 1 /\ b < Len(t) /\ At(t, b) \in {"U+7AE0", "U+7BC0", "U+90E8"}
             THEN b + 1 ELSE -1
    ELSE IF IsFormalNumeral(At(t, a))
    THEN LET b == SkipSpace(t, SkipFormalNumerals(t, a))
         IN  IF b < Len(t) /\ At(t, b) = "U+3001" THEN b + 1 ELSE -1
    ELSE -1

\* section_break_pattern, (?:^|\n)[\s]*(marker) under re.MULTILINE, matched
\* at p: at a line start, or on a newline, which [\s]* would consume as well.
section_break_at(t, p) ==
    IF ~(LineStart(t, p) \/ (p < Len(t) /\ At(t, p) = "\n")) THEN NoMatch
    ELSE LET e == section_marker_end(t, SkipSpace(t, p))
         IN  IF e = -1 THEN NoMatch
             ELSE Match(p, e, <<>>, Strip(Slice(t, p, e)))

\* pattern.finditer(t): the matches from left to right, each search resuming at
\* the end of the match before.  No pattern here matches the empty string.
RECURSIVE clause_header_finditer(_, _)
clause_header_finditer(t, p) ==
    IF p >= Len(t) THEN <<>>
    ELSE LET m == clause_header_at(t, p)
         IN  IF m.ok THEN <<m>> \o clause_header_finditer(t, m.end)
             ELSE clause_header_finditer(t, p + 1)

RECURSIVE sub_clause_finditer(_, _)
sub_clause_finditer(t, p) ==
    IF p >= Len(t) THEN <<>>
    ELSE LET m == sub_clause_at(t, p)
         IN  IF m.ok THEN <<m>> \o sub_clause_finditer(t, m.end)
             ELSE sub_clause_finditer(t, p + 1)

RECURSIVE section_break_finditer(_, _)
section_break_finditer(t, p) ==
    IF p >= Len(t) THEN <<>>
    ELSE LET m == section_break_at(t, p)
         IN  IF m.ok THEN <<m>> \o section_break_finditer(t, m.end)
             ELSE section_break_finditer(t, p + 1)


(***************************************************************************)
(* ChunkingStrategy._classify_clause_type.  A pattern that is a finite     *)
(* alternation is the set of the strings it matches.                       *)
(***************************************************************************)
\* (U+4E0D [U+8CA0 U+627F]? U+4FDD [U+969C U+96AA] | U+514D U+8CAC |
\*  U+6392 U+9664 | U+4F8B U+5916 | U+4F46 [U+4E0D U+975E] U+5305 U+62EC)
exclusion_pattern ==
    {<<"U+4E0D">> \o mid \o <<"U+4FDD", last>> :
        mid \in {<<>>, <<"U+8CA0">>, <<"U+627F">>}, last \in {"U+969C", "U+96AA"}}
    \cup {<<"U+514D", "U+8CAC">>, <<"U+6392", "U+9664">>, <<"U+4F8B", "U+5916">>}
    \cup {<<"U+4F46", c, "U+5305", "U+62EC">> : c \in {"U+4E0D", "U+975E"}}

\* (U+7533 U+8ACB | U+7406 U+8CE0 | U+901A U+77E5 | U+8B49 U+660E | U+6587 U+4EF6
\*  | U+7A0B U+5E8F | U+624B U+7E8C | U+671F U+9650 | U+6642 U+9593)
procedure_pattern ==
    {<<"U+7533", "U+8ACB">>, <<"U+7406", "U+8CE0">>, <<"U+901A", "U+77E5">>,
     <<"U+8B49", "U+660E">>, <<"U+6587", "U+4EF6">>, <<"U+7A0B", "U+5E8F">>,
     <<"U+624B", "U+7E8C">>, <<"U+671F", "U+9650">>, <<"U+6642", "U+9593">>}

\* (U+65C5 [U+7A0B U+904A] U+5EF6 [U+8AA4 U+9072] | U+884C U+674E [U+907A U+640D
\*  U+5931 U+6BC0] | U+91AB U+7642 U+8CBB U+7528 | U+610F U+5916 U+50B7 [U+5BB3
\*  U+4EA1] | U+53D6 U+6D88 U+884C U+7A0B | U+7DCA U+6025 U+6551 U+63F4)
coverage_type_pattern ==
    {<<"U+65C5", a, "U+5EF6", b>> : a \in {"U+7A0B", "U+904A"}, b \in {"U+8AA4", "U+9072"}}
    \cup {<<"U+884C", "U+674E", c>> : c \in {"U+907A", "U+640D", "U+5931", "U+6BC0"}}
    \cup {<<"U+610F", "U+5916", "U+50B7", c>> : c \in {"U+5BB3", "U+4EA1"}}
    \cup {<<"U+91AB", "U+7642", "U+8CBB", "U+7528">>,
          <<"U+53D6", "U+6D88", "U+884C", "U+7A0B">>,
          <<"U+7DCA", "U+6025", "U+6551", "U+63F4">>}

\* pattern.search(content): some alternative occurs somewhere in content.
PatternSearch(pattern, content) ==
    \E p \in 0 .. Len(content) - 1 :
        \E w \in pattern :
            /\ At(content, p) = w[1]
            /\ p + Len(w) <= Len(content)
            /\ Slice(content, p, p + Len(w)) = w

\* The cascade tried in another order: procedure before exclusion.
classify_clause_type_procedure_first(content) ==
    IF PatternSearch(procedure_pattern, content) THEN "procedure"
    ELSE IF PatternSearch(exclusion_pattern, content) THEN "exclusion"
    ELSE IF PatternSearch(coverage_type_pattern, content) THEN "coverage"
    ELSE "general"

classify_clause_type(content) ==
    IF PatternSearch(exclusion_pattern, content) THEN "exclusion"
    ELSE IF PatternSearch(procedure_pattern, content) THEN "procedure"
    ELSE IF PatternSearch(coverage_type_pattern, content) THEN "coverage"
    ELSE "general"

(***************************************************************************)
(* ChunkingStrategy: the chunkers.                                         *)
(***************************************************************************)
\* retrieval.chunk_size and retrieval.chunk_overlap of the configuration
\* (256 and 26 by default), scaled down; 0 <= chunk_overlap < chunk_size.
chunk_size == 8
chunk_overlap == 2

\* "len(sub_text) > 10": the length a sub-clause fragment must exceed.
SubClauseMinLength == 10

\* The clause_number strings: "<n>", f"{n}.{i+1}", f"{n}_{i}", f"chunk_{i}".
ClauseNumber(base, sep, index) == [base |-> base, sep |-> sep, index |-> index]

\* _create_chunk builds the Document; Document.__post_init__ raises ValueError
\* for a content that is blank (valid = FALSE).  The chunk_id, a fresh uuid4,
\* is modelled in the orchestrator (create_chunk).
create_document(content, section_title, clause_number, clause_title, char_start, char_end) ==
    [content       |-> content,
     section_title |-> section_title,
     clause_number |-> clause_number,
     clause_title  |-> clause_title,
     clause_type   |-> classify_clause_type(content),
     char_start    |-> char_start,
     char_end      |-> char_end,
     chunk_length  |-> Len(content),
     valid         |-> ~IsBlank(content)]

\* _sliding_window_chunk: the loop from position on.
RECURSIVE sliding_window_loop(_, _, _, _, _, _, _)
sliding_window_loop(t, position, chunk_index, number, clause_title, section_title, start_pos) ==
    IF ~(position < Len(t)) THEN <<>>
    ELSE LET end_pos    == Min(position + chunk_size, Len(t))
             chunk_text == Strip(Slice(t, position, end_pos))
             step       == chunk_size - chunk_overlap
         IN  IF chunk_text # <<>>
             THEN <<create_document(chunk_text, section_title,
                        ClauseNumber(number, "_", chunk_index), clause_title,
                        start_pos + position, start_pos + end_pos)>>
                  \o sliding_window_loop(t, position + step, chunk_index + 1,
                        number, clause_title, section_title, start_pos)
             ELSE sliding_window_loop(t, position + step, chunk_index,
                        number, clause_title, section_title, start_pos)

\* The windows numbered from 1.
sliding_window_chunk_from_one(t, number, clause_title, section_title, start_pos) ==
    sliding_window_loop(t, 0, 1, number, clause_title, section_title, start_pos)

\* _sliding_window_chunk
sliding_window_chunk(t, number, clause_title, section_title, start_pos) ==
    sliding_window_loop(t, 0, 0, number, clause_title, section_title, start_pos)

\* _fixed_size_chunking_with_metadata: the loop from position on.
RECURSIVE fixed_size_loop(_, _, _, _, _)
fixed_size_loop(t, position, chunk_index, section_title, section_start) ==
    IF ~(position < Len(t)) THEN <<>>
    ELSE LET end_pos    == Min(position + chunk_size, Len(t))
             chunk_text == Strip(Slice(t, position, end_pos))
             step       == chunk_size - chunk_overlap
         IN  IF chunk_text # <<>>
             THEN <<create_document(chunk_text, section_title,
                        ClauseNumber(<<"c", "h", "u", "n", "k">>, "_", chunk_index),
                        <<>>, section_start + position, section_start + end_pos)>>
                  \o fixed_size_loop(t, position + step, chunk_index + 1,
                        section_title, section_start)
             ELSE fixed_size_loop(t, position + step, chunk_index,
                        section_title, section_start)

fixed_size_chunking_with_metadata(t, section_title, section_start) ==
    fixed_size_loop(t, 0, 0, section_title, section_start)

\* section_title U+56FA U+5B9A U+5927 U+5C0F U+5206 U+584A, "fixed-size chunking"
fixed_size_chunking(t) ==
    fixed_size_chunking_with_metadata(t, <<"[fixed-size chunking]">>, 0)

\* The start of match i + 1, or the end of the text after the last match.
NextStart(matches, i, t) ==
    IF i + 1 <= Len(matches) THEN matches[i + 1].start ELSE Len(t)

\* _split_long_clause, the loop over the sub-clause matches from match i on.
RECURSIVE split_on_sub_clauses(_, _, _, _, _, _, _)
split_on_sub_clauses(clause_text, matches, i, number, clause_title, section_title, clause_start) ==
    IF i > Len(matches) THEN <<>>
    ELSE LET sub_start == matches[i].start
             sub_end   == NextStart(matches, i, clause_text)
             sub_text  == Strip(Slice(clause_text, sub_start, sub_end))
             rest      == split_on_sub_clauses(clause_text, matches, i + 1, number,
                              clause_title, section_title, clause_start)
         IN  IF sub_text # <<>> /\ Len(sub_text) > SubClauseMinLength
             THEN <<create_document(sub_text, section_title,
                        ClauseNumber(number, ".", i), clause_title,
                        clause_start + sub_start, clause_start + sub_end)>> \o rest
             ELSE rest

split_long_clause(clause_text, number, clause_title, section_title, clause_start) ==
    LET sub_clause_matches == sub_clause_finditer(clause_text, 0)
    IN  IF Len(sub_clause_matches) > 1
        THEN split_on_sub_clauses(clause_text, sub_clause_matches, 1, number,
                 clause_title, section_title, clause_start)
        ELSE sliding_window_chunk(clause_text, number, clause_title,
                 section_title, clause_start)

\* _chunk_section, the loop over the clause matches from match i on.
RECURSIVE chunk_clauses(_, _, _, _, _)
chunk_clauses(section_text, matches, i, section_title, section_start) ==
    IF i > Len(matches) THEN <<>>
    ELSE LET clause_start == matches[i].start
             clause_end   == NextStart(matches, i, section_text)
             clause_text  == Strip(Slice(section_text, clause_start, clause_end))
             clause_title == Strip(matches[i].title)
             rest         == chunk_clauses(section_text, matches, i + 1,
                                 section_title, section_start)
         IN  IF clause_text = <<>> THEN rest
             ELSE IF Len(clause_text) > chunk_size
             THEN split_long_clause(clause_text, matches[i].number, clause_title,
                      section_title, section_start + clause_start) \o rest
             ELSE <<create_document(clause_text, section_title,
                        ClauseNumber(matches[i].number, "", 0), clause_title,
                        section_start + clause_start, section_start + clause_end)>>
                  \o rest

\* The offsets left relative to the section: section_start is not added.
chunk_section_relative_offsets(section_text, section_title, section_start) ==
    LET clause_matches == clause_header_finditer(section_text, 0)
    IN  IF clause_matches = <<>>
        THEN fixed_size_chunking_with_metadata(section_text, section_title, 0)
        ELSE chunk_clauses(section_text, clause_matches, 1, section_title, 0)

chunk_section(section_text, section_title, section_start) ==
    LET clause_matches == clause_header_finditer(section_text, 0)
    IN  IF clause_matches = <<>>
        THEN fixed_size_chunking_with_metadata(section_text, section_title,
                 section_start)
        ELSE chunk_clauses(section_text, clause_matches, 1, section_title,
                 section_start)

\* _identify_sections: (start_pos, end_pos, section_title) per section match;
\* the whole text, titled U+5168 U+6587 ("full text"), when there is none.
identify_sections(t) ==
    LET section_matches == section_break_finditer(t, 0)
    IN  IF section_matches = <<>>
        THEN <<[start_pos |-> 0, end_pos |-> Len(t), title |-> <<"[full text]">>]>>
        ELSE [i \in 1 .. Len(section_matches) |->
                 [start_pos |-> section_matches[i].start,
                  end_pos   |-> NextStart(section_matches, i, t),
                  title     |-> section_matches[i].title]]

RECURSIVE chunk_sections(_, _, _)
chunk_sections(t, sections, i) ==
    IF i > Len(sections) THEN <<>>
    ELSE chunk_section(Slice(t, sections[i].start_pos, sections[i].end_pos),
                       sections[i].title, sections[i].start_pos)
         \o chunk_sections(t, sections, i + 1)

\* _semantic_chunking; the section title of the retry is U+6587 U+4EF6 U+5167
\* U+5BB9 ("document content").
semantic_chunking(t) ==
    LET chunks == chunk_sections(t, identify_sections(t), 1)
    IN  IF chunks = <<>> THEN chunk_section(t, <<"[document content]">>, 0)
        ELSE chunks

\* A Document constructor raised inside the chunker.
Raises(chunks) == \E i \in 1 .. Len(chunks) : ~chunks[i].valid

\* The log line guarded against no chunks: an empty result is returned as it
\* is and only an exception leads to the fallback.
chunk_document_no_division(t, preserve) ==
    IF IsBlank(t) THEN [raised |-> FALSE, chunks |-> <<>>, path |-> "blank"]
    ELSE LET chunks == IF preserve THEN semantic_chunking(t)
                       ELSE fixed_size_chunking(t)
         IN  IF Raises(chunks)
             THEN LET fallback == fixed_size_chunking(t)
                  IN  [raised |-> Raises(fallback),
                       chunks |-> IF Raises(fallback) THEN <<>> ELSE fallback,
                       path   |-> "fallback"]
             ELSE [raised |-> FALSE, chunks |-> chunks, path |-> "direct"]

\* chunk_document.  In the try block the chunker may raise, and the log line
\* divides by len(chunks), which raises ZeroDivisionError for no chunks; the
\* except branch returns _fixed_size_chunking(text), outside any try.
chunk_document(t, preserve) ==
    IF IsBlank(t) THEN [raised |-> FALSE, chunks |-> <<>>, path |-> "blank"]
    ELSE LET chunks == IF preserve THEN semantic_chunking(t)
                       ELSE fixed_size_chunking(t)
         IN  IF Raises(chunks) \/ chunks = <<>>
             THEN LET fallback == fixed_size_chunking(t)
                  IN  [raised |-> Raises(fallback),
                       chunks |-> IF Raises(fallback) THEN <<>> ELSE fallback,
                       path   |-> "fallback"]
             ELSE [raised |-> FALSE, chunks |-> chunks, path |-> "direct"]


(***************************************************************************)
(* SpecChunk: chunk_document called once on a text.  The texts are the     *)
(* concatenations of at most MaxSegments segments: two clause headers, a   *)
(* section marker, a newline, a blank, a letter, a sub-clause marker at    *)
(* the start of a line, and a run of letters longer than                   *)
(* SubClauseMinLength.                                                     *)
(***************************************************************************)
MaxSegments == 4

Segments ==
    {<<"U+7B2C", "1", "U+689D">>,
     <<"U+7B2C", "2", "U+689D">>,
     <<"U+7B2C", "U+4E00", "U+7AE0">>,
     <<"\n">>,
     <<" ">>,
     <<"x">>,
     <<"\n", "1", ".">>,
     [i \in 1 .. SubClauseMinLength + 1 |-> "x"]}

RECURSIVE Concat(_)
Concat(ss) == IF ss = <<>> THEN <<>> ELSE Head(ss) \o Concat(Tail(ss))

Texts == {Concat(ss) : ss \in UNION {[1 .. n -> Segments] : n \in 0 .. MaxSegments}}

InitChunk ==
    /\ RagInit
    /\ ClassIdle
    /\ LaterIdle
    /\ text \in Texts
    /\ preserve_structure \in BOOLEAN
    /\ chunk_pc = "called"
    /\ chunked = NoChunks

ChunkDocument ==
    /\ chunk_pc = "called"
    /\ chunked' = chunk_document(text, preserve_structure)
    /\ chunk_pc' = "returned"
    /\ UNCHANGED <<text, preserve_structure, ragvars, classvars, latervars>>

NextChunk == ChunkDocument

SpecChunk == InitChunk /\ [][NextChunk]_vars


(***************************************************************************)
(* Properties of chunk_document (checked under SpecChunk).                 *)
(***************************************************************************)
Returned == chunk_pc = "returned"

Chunks == chunked.chunks

\* s occurs in t.
Occurs(s, t) ==
    \E a \in 0 .. Len(t) - Len(s) : Slice(t, a, a + Len(s)) = s

\* The clause headers present in t: the strings U+7B2C \s* number \s* U+689D
\* that occur in it.
ClauseHeaders(t) ==
    {Slice(t, p, q) : p \in 0 .. Len(t) - 1, q \in 1 .. Len(t)} \cap
    {h \in {Slice(t, p, q) : p \in 0 .. Len(t) - 1, q \in 1 .. Len(t)} :
        /\ Len(h) >= 3
        /\ clause_header_at(h, 0).ok
        /\ h[Len(h)] = "U+689D"
        /\ \A k \in 1 .. Len(h) - 1 : h[k] # "U+689D"}

\* C7: with preserve_structure every clause header present in the text occurs
\* in the content of some returned chunk.
C7_HeadersPreserved ==
    (Returned /\ preserve_structure) =>
        \A h \in ClauseHeaders(text) :
            \E i \in 1 .. Len(Chunks) : Occurs(h, Chunks[i].content)

\* C8: every chunk has 0 <= char_start < char_end <= len(text), chunk_length
\* = len(content), and its content is text[char_start:char_end] stripped.
C8_OffsetInvariant ==
    Returned =>
        \A i \in 1 .. Len(Chunks) :
            LET c == Chunks[i]
            IN  /\ 0 <= c.char_start
                /\ c.char_start < c.char_end
                /\ c.char_end <= Len(text)
                /\ c.chunk_length = Len(c.content)
                /\ c.content = Strip(Slice(text, c.char_start, c.char_end))

\* A chunk of a sub-clause split that starts after the clause header, its
\* span wider than its stripped content.
C8_Witness ==
    /\ Returned
    /\ \E i \in 1 .. Len(Chunks) :
          /\ Chunks[i].clause_number.sep = "."
          /\ Chunks[i].char_start > 0
          /\ Chunks[i].char_end - Chunks[i].char_start > Chunks[i].chunk_length

\* C9: chunk_document never raises; it returns no chunk for a blank text and
\* at least one chunk for any other text, and when the chunker of the try
\* block gives no chunk the result is the fixed-size chunking of the whole text.
C9_NeverRaisesNeverEmpty ==
    Returned =>
        /\ ~chunked.raised
        /\ IsBlank(text) => Chunks = <<>>
        /\ ~IsBlank(text) => Chunks # <<>>
        /\ (~IsBlank(text) /\ preserve_structure /\ semantic_chunking(text) = <<>>)
              => Chunks = fixed_size_chunking(text)

\* A text with a clause header whose structured chunking gives no chunk: the
\* chunks returned are those of the fallback.
C9_Witness ==
    /\ Returned
    /\ preserve_structure
    /\ chunked.path = "fallback"
    /\ Chunks # <<>>
    /\ ClauseHeaders(text) # {}

(***************************************************************************)
(* SpecClassify: _classify_clause_type called once on a content made of at *)
(* most MaxWords words: keywords of the three patterns, halves of          *)
(* keywords, and a letter.                                                 *)
(***************************************************************************)
MaxWords == 3

Words ==
    {<<"U+514D", "U+8CAC">>,                       \* exclusion
     <<"U+4E0D", "U+4FDD", "U+96AA">>,             \* exclusion
     <<"U+4E0D", "U+8CA0">>,                       \* the start of an exclusion keyword
     <<"U+4FDD", "U+969C">>,                       \* the end of one
     <<"U+7533", "U+8ACB">>,                       \* procedure
     <<"U+7406", "U+8CE0">>,                       \* procedure
     <<"U+884C", "U+674E", "U+907A">>,             \* coverage
     <<"U+91AB", "U+7642", "U+8CBB", "U+7528">>,   \* coverage
     <<"x">>}

Contents ==
    {Concat(ws) : ws \in UNION {[1 .. n -> Words] : n \in 0 .. MaxWords}}

InitClassify ==
    /\ RagInit
    /\ ChunkIdle
    /\ LaterIdle
    /\ clause_content \in Contents
    /\ class_pc = "called"
    /\ clause_type_returned = "none"

ClassifyClause ==
    /\ class_pc = "called"
    /\ clause_type_returned' = classify_clause_type(clause_content)
    /\ class_pc' = "returned"
    /\ UNCHANGED <<clause_content, ragvars, chunkvars, latervars>>

NextClassify == ClassifyClause

SpecClassify == InitClassify /\ [][NextClassify]_vars

\* Some keyword of the pattern is a substring of the content.
HasKeyword(pattern, c) ==
    \E i \in 1 .. Len(c) : \E j \in i .. Len(c) : SubSeq(c, i, j) \in pattern

C12_ScoreClamp ==
    IsQuery => \A i \in 1 .. Len(returned) :
                  0 <= returned[i].score /\ returned[i].score <= 100

\* C28: in every state reached by initialize_system, reindex_documents,
\* clear_index and query calls, failed ones included, a Ready system has at
\* least one vector in the namespace of the index.
C28_ReadyHasVectors ==
    is_initialized => namespace # {}

\* C20: a query or a stream_query whose question is empty or white space ends
\* with an error and makes no call to the embedding provider, the index or
\* the completion provider, whatever the state it is made in.
C20_BlankQuestionRejected ==
    (IsQuery /\ blank_question) => (outcome # "ok" /\ calls = <<>>)

\* A blank question put to stream_query on an initialized system with a
\* non-empty index.
C20_Witness ==
    /\ op = "stream_query"
    /\ blank_question
    /\ pre_initialized
    /\ pre_namespace # {}
    /\ outcome = "error"

\* The same on the query path.
C20_WitnessQuery ==
    op = "query" /\ blank_question /\ pre_initialized /\ outcome = "empty_question"

(***************************************************************************)
(* ResponseGenerator: the confidence of a response.                        *)
(* SpecGenerate  generate_response or generate_streaming_response called   *)
(*            once on a list of retrieved documents.                       *)
(***************************************************************************)
\* At most this many retrieved documents.
MaxMatches == 3

\* The scores of the retrieved documents, in hundredths.
DocScores == {-20, 50, 80, 100, 120}

\* The finish reasons of the completion provider: "stop" a normal completion,
\* "length" a generation truncated at max_tokens.
FinishReasons == {"stop", "length"}

Max(a, b) == IF a > b THEN a ELSE b

RECURSIVE SumScores(_)
SumScores(docs) == IF docs = <<>> THEN 0 ELSE Head(docs) + SumScores(Tail(docs))

\* finish_reason_factor, in hundredths.
finish_reason_factor(finish_reason) ==
    IF finish_reason = "length" THEN 80 ELSE 100

\* _calculate_confidence_score, as the fraction num / den.  With n documents
\* of scores s (hundredths), 1000n times the composite is
\*   0.6 * avg:           6 * sum(s)
\*   0.3 * min(1, n / 3): 100 * n * min(3, n)
\*   0.1 * factor:        n * factor (hundredths)
calculate_confidence_score(docs, finish_reason) ==
    IF docs = <<>> THEN [num |-> 1, den |-> 10]
    ELSE LET n          == Len(docs)
             den        == 1000 * n
             confidence == 6 * SumScores(docs) + 100 * n * Min(3, n)
                             + n * finish_reason_factor(finish_reason)
         IN  [num |-> Min(den, Max(0, confidence)), den |-> den]

\* generate_response: llm_client.generate_response gives the provider's
\* finish_reason; any failure is raised as ResponseGenerationError.
generate_response(docs, finish, fail) ==
    [pc |-> "returned", docs |-> docs, finish |-> finish,
     method |-> "generate_response", raised |-> fail,
     confidence |-> IF fail THEN [num |-> 0, den |-> 1]
                    ELSE calculate_confidence_score(docs, finish)]

\* generate_streaming_response: the provider's finish reason is not read; the
\* llm_response is built with "finish_reason": "stop".
generate_streaming_response(docs, finish, fail) ==
    [pc |-> "returned", docs |-> docs, finish |-> finish,
     method |-> "generate_streaming_response", raised |-> fail,
     confidence |-> IF fail THEN [num |-> 0, den |-> 1]
                    ELSE calculate_confidence_score(docs, "stop")]

DocLists == UNION {[1 .. n -> DocScores] : n \in 0 .. MaxMatches}

InitGenerate ==
    /\ EarlierIdle
    /\ IdleExcept("generator")
    /\ generator \in {[pc |-> "called", docs |-> d, finish |-> f, method |-> "none",
                       raised |-> FALSE, confidence |-> [num |-> 0, den |-> 1]] :
                      d \in DocLists, f \in FinishReasons}

GenerateResponse ==
    /\ generator.pc = "called"
    /\ \E fail \in BOOLEAN :
          generator' = generate_response(generator.docs, generator.finish, fail)
    /\ UNCHANGED <<earliervars, batch_run, pii, sanitizer, limits, validator, encoder, routes>>

GenerateStreamingResponse ==
    /\ generator.pc = "called"
    /\ \E fail \in BOOLEAN :
          generator' = generate_streaming_response(generator.docs, generator.finish, fail)
    /\ UNCHANGED <<earliervars, batch_run, pii, sanitizer, limits, validator, encoder, routes>>

NextGenerate == GenerateResponse \/ GenerateStreamingResponse

SpecGenerate == InitGenerate /\ [][NextGenerate]_vars

\* A response was made.
Responded == generator.pc = "returned" /\ ~generator.raised

\* C11: the confidence of a response over n >= 1 matches is
\* 0.6*avg(score) + 0.3*min(1, n/3) + 0.1*f clamped to [0, 1], with f = 0.8
\* when the generation was truncated and f = 1.0 when it completed normally;
\* over no match it is 0.1.
C11_ConfidenceFormula ==
    Responded =>
        LET n == Len(generator.docs)
            f == IF generator.finish = "length" THEN 80 ELSE 100
            composite == 6 * SumScores(generator.docs) + 100 * n * Min(3, n) + n * f
            clamped   == IF composite < 0 THEN 0
                         ELSE IF composite > 1000 * n THEN 1000 * n ELSE composite
        IN  IF n = 0
            THEN 10 * generator.confidence.num = generator.confidence.den
            ELSE generator.confidence.num * 1000 * n = clamped * generator.confidence.den


(***************************************************************************)
(* DocumentProcessor.process_documents_batch.                              *)
(* SpecBatch  one call on a directory of at most MaxDocs files.            *)
(***************************************************************************)
\* At most this many .txt files in the directory.
MaxDocs == 3

\* What becomes of one file: load_document fails (the file is skipped by
\* load_documents_from_directory), or process_document returns chunks, or it
\* raises one of the errors it can raise.
FileOutcomes ==
    {"load_failed", "chunks", "SecurityError", "ValidationError", "DocumentProcessingError"}

\* The classes declared as kinds of ProcessingError.  SecurityError and
\* DocumentProcessingError are imported from exceptions.py, which does not
\* declare them; they are taken as the per-document failures of the
\* propagation policy, which a batch run records before it goes on.
ProcessingErrorKinds == {"ProcessingError", "DocumentProcessingError", "SecurityError"}

\* except (ProcessingError, ValidationError)
CaughtPerDocument(kind) == kind \in ProcessingErrorKinds \/ kind = "ValidationError"

DocumentError(i) == [scope |-> "document", file |-> i]

BatchError == [scope |-> "batch", file |-> 0]

\* The failure counted but its message not kept.
record_failure_unlisted(stats, i) ==
    [stats EXCEPT !.failed_documents = @ + 1]

\* The except branch of the loop body.
record_failure(stats, i) ==
    [stats EXCEPT !.failed_documents = @ + 1, !.errors = Append(@, DocumentError(i))]

\* The for loop of process_documents_batch from file i on.  aborted: an
\* exception left the loop for the outer except branch.
RECURSIVE batch_loop(_, _, _, _)
batch_loop(files, i, stats, attempted) ==
    IF i > Len(files) THEN [stats |-> stats, attempted |-> attempted, aborted |-> FALSE]
    ELSE IF files[i] = "load_failed" THEN batch_loop(files, i + 1, stats, attempted)
    ELSE LET counted == [stats EXCEPT !.total_documents = @ + 1]
             tried   == Append(attempted, i)
         IN  IF files[i] = "chunks"
             THEN batch_loop(files, i + 1,
                      [counted EXCEPT !.processed_documents = @ + 1], tried)
             ELSE IF CaughtPerDocument(files[i])
             THEN batch_loop(files, i + 1, record_failure(counted, i), tried)
             ELSE [stats |-> counted, attempted |-> tried, aborted |-> TRUE]

\* process_documents_batch.  directory_ok: the directory exists and can be
\* listed; save_ok: _save_processed_chunks succeeds (it is called when an
\* output path is given and there are chunks).
process_documents_batch(files, directory_ok, save_ok) ==
    IF ~directory_ok
    THEN [pc |-> "returned", files |-> files, listed |-> FALSE, attempted |-> <<>>,
          stats |-> [NoStats EXCEPT !.errors = <<BatchError>>]]
    ELSE LET r == batch_loop(files, 1, NoStats, <<>>)
         IN  [pc |-> "returned", files |-> files, listed |-> TRUE,
              attempted |-> r.attempted,
              stats |-> IF r.aborted \/ (~save_ok /\ r.stats.processed_documents > 0)
                        THEN [r.stats EXCEPT !.errors = Append(@, BatchError)]
                        ELSE r.stats]

InitBatch ==
    /\ EarlierIdle
    /\ IdleExcept("batch_run")
    /\ batch_run \in {[pc |-> "called", files |-> f, listed |-> FALSE, stats |-> NoStats,
                       attempted |-> <<>>] :
                  f \in UNION {[1 .. n -> FileOutcomes] : n \in 0 .. MaxDocs}}

ProcessDocumentsBatch ==
    /\ batch_run.pc = "called"
    /\ \E directory_ok, save_ok \in BOOLEAN :
          batch_run' = process_documents_batch(batch_run.files, directory_ok, save_ok)
    /\ UNCHANGED <<earliervars, generator, pii, sanitizer, limits, validator, encoder, routes>>

NextBatch == ProcessDocumentsBatch

SpecBatch == InitBatch /\ [][NextBatch]_vars

\* The files of the directory on which process_document fails, and those loaded.
FailingFiles(files) ==
    {i \in 1 .. Len(files) : files[i] \notin {"load_failed", "chunks"}}

LoadedFiles(files) == {i \in 1 .. Len(files) : files[i] # "load_failed"}

\* The call returned after it listed the directory.
BatchRan == batch_run.pc = "returned" /\ batch_run.listed

ClassMatches(class, c) ==
    IF class = "d" THEN IsDigit(c)
    ELSE IF class = "U"
    THEN c \in {"A", "B", "C", "D", "E", "F", "G", "H", "I", "J", "K", "L", "M",
                "N", "O", "P", "Q", "R", "S", "T", "U", "V", "W", "X", "Y", "Z"}
    ELSE c = class

Repeat(x, n) == [i \in 1 .. n |-> x]

\* SecurityConfig.pii_masking_patterns with the kinds f"pii_pattern_{i}", then
\* taiwan_pii_patterns with pii_type_names, in the order they are tried.  A
\* pattern is the classes every match has, and how many more digits a match
\* takes when they follow (the {10,11} of the phone pattern).
PiiPatterns ==
    LET credit_card == [classes |-> Repeat("d", 4) \o <<"-">> \o Repeat("d", 4) \o <<"-">>
                                    \o Repeat("d", 4) \o <<"-">> \o Repeat("d", 4),
                        more |-> 0]
        phone       == [classes |-> Repeat("d", 10), more |-> 1]
        national_id == [classes |-> <<"U">> \o Repeat("d", 9), more |-> 0]
        mobile      == [classes |-> <<"0", "9">> \o Repeat("d", 8), more |-> 0]
        landline    == [classes |-> Repeat("d", 2) \o <<"-">> \o Repeat("d", 8), more |-> 0]
        passport    == [classes |-> <<"U", "U">> \o Repeat("d", 8), more |-> 0]
    IN  <<[kind |-> "pii_pattern_0", pattern |-> credit_card],
          [kind |-> "pii_pattern_1", pattern |-> phone],
          [kind |-> "pii_pattern_2", pattern |-> national_id],
          [kind |-> "taiwan_id",     pattern |-> national_id],
          [kind |-> "credit_card",   pattern |-> credit_card],
          [kind |-> "mobile_phone",  pattern |-> mobile],
          [kind |-> "landline",      pattern |-> landline],
          [kind |-> "passport",      pattern |-> passport]>>

\* The digits from position p on, at most n of them.
RECURSIVE DigitRun(_, _, _)
DigitRun(t, p, n) ==
    IF n = 0 \/ p >= Len(t) \/ ~IsDigit(At(t, p)) THEN 0
    ELSE 1 + DigitRun(t, p + 1, n - 1)

\* The end of the match of the pattern at position p, or -1.
PatternMatchEnd(pattern, t, p) ==
    LET n == Len(pattern.classes)
    IN  IF p + n <= Len(t)
           /\ \A k \in 1 .. n : ClassMatches(pattern.classes[k], At(t, p + k - 1))
        THEN p + n + DigitRun(t, p + n, pattern.more)
        ELSE -1

\* pattern.findall(content): the matches from position p on, left to right,
\* not overlapping.
RECURSIVE pattern_findall(_, _, _)
pattern_findall(pattern, t, p) ==
    IF p >= Len(t) THEN <<>>
    ELSE LET e == PatternMatchEnd(pattern, t, p)
         IN  IF e < 0 THEN pattern_findall(pattern, t, p + 1)
             ELSE <<Slice(t, p, e)>> \o pattern_findall(pattern, t, e)

\* str.replace(old, new) from position p on; old is not empty.
RECURSIVE str_replace(_, _, _, _)
str_replace(t, old, new, p) ==
    IF p >= Len(t) THEN <<>>
    ELSE IF p + Len(old) <= Len(t) /\ Slice(t, p, p + Len(old)) = old
    THEN new \o str_replace(t, old, new, p + Len(old))
    ELSE <<At(t, p)>> \o str_replace(t, old, new, p + 1)

\* match[0] + '*' * (len(match) - 2) + match[-1], or all '*' for a short match.
mask_match(match) ==
    IF Len(match) > 2
    THEN <<match[1]>> \o Repeat("*", Len(match) - 2) \o <<match[Len(match)]>>
    ELSE Repeat("*", Len(match))

\* for match in matches: masked_content = masked_content.replace(match, masked)
RECURSIVE mask_matches(_, _)
mask_matches(masked_content, matches) ==
    IF matches = <<>> THEN masked_content
    ELSE mask_matches(str_replace(masked_content, Head(matches),
                                  mask_match(Head(matches)), 0),
                      Tail(matches))

\* The two loops over the patterns, from pattern i on: findall runs on the
\* content passed, replace on the content masked so far.
RECURSIVE mask_patterns(_, _, _, _)
mask_patterns(content, i, masked_content, pii_types_found) ==
    IF i > Len(PiiPatterns) THEN [masked |-> masked_content, kinds |-> pii_types_found]
    ELSE LET matches == pattern_findall(PiiPatterns[i].pattern, content, 0)
         IN  IF matches = <<>>
             THEN mask_patterns(content, i + 1, masked_content, pii_types_found)
             ELSE mask_patterns(content, i + 1, mask_matches(masked_content, matches),
                                Append(pii_types_found, PiiPatterns[i].kind))

detect_and_mask_pii(content, enable_pii_detection) ==
    IF ~enable_pii_detection THEN [masked |-> content, kinds |-> <<>>]
    ELSE mask_patterns(content, 1, content, <<>>)

\* At most this many segments in a content.
MaxPiiSegments == 4

\* The contents: at most MaxPiiSegments segments, one after the other.
PiiContents ==
    LET segments == {<<"A">>, <<"1">>, <<"0", "9">>, <<"-">>, <<"x">>,
                     <<"1", "2", "3", "4", "5", "6", "7", "8">>,
                     <<"1", "2", "3", "4">>,
                     <<"1", "2", "3", "4", "-">>}
    IN  {Concat(ss) : ss \in UNION {[1 .. n -> segments] : n \in 0 .. MaxPiiSegments}}

InitPii ==
    /\ EarlierIdle
    /\ IdleExcept("pii")
    /\ pii \in {[pc |-> "called", content |-> c, enabled |-> e, masked |-> <<>>,
                 kinds |-> <<>>] : c \in PiiContents, e \in BOOLEAN}

DetectAndMaskPii ==
    /\ pii.pc = "called"
    /\ LET r == detect_and_mask_pii(pii.content, pii.enabled)
       IN  pii' = [pii EXCEPT !.pc = "returned", !.masked = r.masked, !.kinds = r.kinds]
    /\ UNCHANGED <<earliervars, generator, batch_run, sanitizer, limits, validator, encoder, routes>>

SpecPii == InitPii /\ [][DetectAndMaskPii]_vars

\* The matches findall gives, as spans [start, end) of the content.
RECURSIVE pattern_spans(_, _, _)
pattern_spans(pattern, t, p) ==
    IF p >= Len(t) THEN {}
    ELSE LET e == PatternMatchEnd(pattern, t, p)
         IN  IF e < 0 THEN pattern_spans(pattern, t, p + 1)
             ELSE {[start |-> p, end |-> e]} \cup pattern_spans(pattern, t, e)

\* C15: with PII detection enabled, every substring of the input that a PII
\* pattern matches is, in the output, the same length with its first and last
\* character kept and '*' everywhere between; the output does not contain the
\* matched substring; and the kind of every pattern that matched is returned.
C15_EveryMatchMasked ==
    (pii.pc = "returned" /\ pii.enabled) =>
        /\ Len(pii.masked) = Len(pii.content)
        /\ \A i \in 1 .. Len(PiiPatterns) :
              \A span \in pattern_spans(PiiPatterns[i].pattern, pii.content, 0) :
                  LET m == Slice(pii.content, span.start, span.end)
                  IN  /\ Slice(pii.masked, span.start, span.end)
                            = <<m[1]>> \o [k \in 1 .. Len(m) - 2 |-> "*"] \o <<m[Len(m)]>>
                      /\ ~Occurs(m, pii.masked)
                      /\ \E k \in 1 .. Len(pii.kinds) : pii.kinds[k] = PiiPatterns[i].kind


(***************************************************************************)
(* SecurityValidator.sanitize_content.                                     *)
(* SpecSanitize  one call on a content put together from a few segments.   *)
(***************************************************************************)
\* The words of the patterns, as characters (java and script_colon: the
\* halves of a word).
PatternWord ==
    [script_open |-> <<"<", "s", "c", "r", "i", "p", "t">>,
     script_close |-> <<"<", "/", "s", "c", "r", "i", "p", "t", ">">>,
     javascript |-> <<"j", "a", "v", "a", "s", "c", "r", "i", "p", "t", ":">>,
     vbscript |-> <<"v", "b", "s", "c", "r", "i", "p", "t", ":">>,
     onload |-> <<"o", "n", "l", "o", "a", "d", "=">>,
     onerror |-> <<"o", "n", "e", "r", "r", "o", "r", "=">>,
     union |-> <<"u", "n", "i", "o", "n">>,
     select |-> <<"s", "e", "l", "e", "c", "t">>,
     insert |-> <<"i", "n", "s", "e", "r", "t">>,
     into |-> <<"i", "n", "t", "o">>,
     delete |-> <<"d", "e", "l", "e", "t", "e">>,
     from |-> <<"f", "r", "o", "m">>,
     drop |-> <<"d", "r", "o", "p">>,
     table |-> <<"t", "a", "b", "l", "e">>,
     exec |-> <<"e", "x", "e", "c">>,
     java |-> <<"j", "a", "v", "a">>,
     script_colon |-> <<"s", "c", "r", "i", "p", "t", ":">>]

\* re.IGNORECASE: letters are compared in lower case.
LowerCase(c) ==
    LET upper == <<"A", "B", "C", "D", "E", "F", "G", "H", "I", "J", "K", "L", "M",
                   "N", "O", "P", "Q", "R", "S", "T", "U", "V", "W", "X", "Y", "Z">>
        lower == <<"a", "b", "c", "d", "e", "f", "g", "h", "i", "j", "k", "l", "m",
                   "n", "o", "p", "q", "r", "s", "t", "u", "v", "w", "x", "y", "z">>
    IN  IF \E i \in 1 .. 26 : upper[i] = c
        THEN lower[CHOOSE i \in 1 .. 26 : upper[i] = c]
        ELSE c

\* The word w stands at position p of t, whatever the case of its letters.
LiteralAt(t, p, word) ==
    /\ p + Len(word) <= Len(t)
    /\ \A k \in 1 .. Len(word) : LowerCase(At(t, p + k - 1)) = word[k]

\* The first position from p on where the word stands, or -1.
RECURSIVE FindLiteral(_, _, _)
FindLiteral(t, p, word) ==
    IF p + Len(word) > Len(t) THEN -1
    ELSE IF LiteralAt(t, p, word) THEN p
    ELSE FindLiteral(t, p + 1, word)

\* <script[^>]*>.*?</script> at position p (re.DOTALL): the end of the match,
\* or -1.
script_tag_end(t, p) ==
    IF ~LiteralAt(t, p, PatternWord.script_open) THEN -1
    ELSE LET close == FindLiteral(t, p + Len(PatternWord.script_open), <<">">>)
         IN  IF close < 0 THEN -1
             ELSE LET tag == FindLiteral(t, close + 1, PatternWord.script_close)
                  IN  IF tag < 0 THEN -1 ELSE tag + Len(PatternWord.script_close)

\* script_injection_pattern at position p: the end of the match, or -1.
script_injection_end(t, p) ==
    LET words == {PatternWord.javascript, PatternWord.vbscript, PatternWord.onload,
                  PatternWord.onerror}
    IN  IF script_tag_end(t, p) >= 0 THEN script_tag_end(t, p)
        ELSE IF \E word \in words : LiteralAt(t, p, word)
        THEN p + Len(CHOOSE word \in words : LiteralAt(t, p, word))
        ELSE -1

\* first \s+ second at position p: the end of the match, or -1.
sql_phrase_end(t, p, phrase) ==
    IF ~LiteralAt(t, p, phrase[1]) THEN -1
    ELSE LET a == p + Len(phrase[1])
             b == SkipSpace(t, a)
         IN  IF b > a /\ LiteralAt(t, b, phrase[2]) THEN b + Len(phrase[2]) ELSE -1

\* sql_injection_pattern at position p: the end of the match, or -1.
sql_injection_end(t, p) ==
    LET phrases == {<<PatternWord.union, PatternWord.select>>,
                    <<PatternWord.insert, PatternWord.into>>,
                    <<PatternWord.delete, PatternWord.from>>,
                    <<PatternWord.drop, PatternWord.table>>}
        paren   == SkipSpace(t, p + Len(PatternWord.exec))
    IN  IF \E phrase \in phrases : sql_phrase_end(t, p, phrase) >= 0
        THEN sql_phrase_end(t, p, CHOOSE phrase \in phrases : sql_phrase_end(t, p, phrase) >= 0)
        ELSE IF LiteralAt(t, p, PatternWord.exec) /\ LiteralAt(t, paren, <<"(">>)
        THEN paren + 1
        ELSE -1

\* script_injection_pattern.sub('', content) from position p on.
RECURSIVE remove_script_injection(_, _)
remove_script_injection(t, p) ==
    IF p >= Len(t) THEN <<>>
    ELSE LET e == script_injection_end(t, p)
         IN  IF e < 0 THEN <<At(t, p)>> \o remove_script_injection(t, p + 1)
             ELSE remove_script_injection(t, e)

\* sql_injection_pattern.sub('', content) from position p on.
RECURSIVE remove_sql_injection(_, _)
remove_sql_injection(t, p) ==
    IF p >= Len(t) THEN <<>>
    ELSE LET e == sql_injection_end(t, p)
         IN  IF e < 0 THEN <<At(t, p)>> \o remove_sql_injection(t, p + 1)
             ELSE remove_sql_injection(t, e)

\* content.replace('\x00', '').replace('\r', '\n')
RECURSIVE replace_control(_)
replace_control(t) ==
    IF t = <<>> THEN <<>>
    ELSE IF Head(t) = "NUL" THEN replace_control(Tail(t))
    ELSE IF Head(t) = "\r" THEN <<"\n">> \o replace_control(Tail(t))
    ELSE <<Head(t)>> \o replace_control(Tail(t))

\* The run of newlines: "\n{10,}" is a run of at least this many.
NewlineRun == 10

RECURSIVE SkipNewlines(_, _)
SkipNewlines(t, p) ==
    IF p < Len(t) /\ At(t, p) = "\n" THEN SkipNewlines(t, p + 1) ELSE p

\* re.sub(r'\n{10,}', '\n\n\n', content) from position p on.
RECURSIVE collapse_newlines(_, _)
collapse_newlines(t, p) ==
    IF p >= Len(t) THEN <<>>
    ELSE LET e == SkipNewlines(t, p)
         IN  IF e - p >= NewlineRun THEN <<"\n", "\n", "\n">> \o collapse_newlines(t, e)
             ELSE <<At(t, p)>> \o collapse_newlines(t, p + 1)

\* sanitize_content: the content returned, and whether 'content_sanitized' is
\* logged (the length changed).
sanitize_content(content) ==
    LET a == remove_script_injection(content, 0)
        b == remove_sql_injection(a, 0)
        c == replace_control(b)
        d == collapse_newlines(c, 0)
    IN  [content |-> d, logged |-> Len(d) # Len(content)]

\* At most this many segments in a content.
MaxSanSegments == 3

\* The contents: at most MaxSanSegments segments, one after the other.
SanContents ==
    LET segments == {PatternWord.java, PatternWord.script_colon, PatternWord.javascript,
                     PatternWord.script_open \o <<">">>, PatternWord.script_close,
                     <<"J">>, <<"x">>, <<"NUL">>, <<"\r">>, PatternWord.union, <<" ">>,
                     PatternWord.select, <<"\n">>, Repeat("\n", NewlineRun - 1)}
    IN  {Concat(ss) : ss \in UNION {[1 .. n -> segments] : n \in 0 .. MaxSanSegments}}

InitSanitize ==
    /\ EarlierIdle
    /\ IdleExcept("sanitizer")
    /\ sanitizer \in {[pc |-> "called", content |-> c, sanitized |-> <<>>] :
                      c \in SanContents}

SanitizeContent ==
    /\ sanitizer.pc = "called"
    /\ sanitizer' = [sanitizer EXCEPT !.pc = "returned",
                                      !.sanitized = sanitize_content(sanitizer.content).content]
    /\ UNCHANGED <<earliervars, generator, batch_run, pii, limits, validator, encoder, routes>>

SpecSanitize == InitSanitize /\ [][SanitizeContent]_vars

\* C16: the output of sanitize_content has no substring that matches a
\* script-injection pattern, none that matches an SQL-injection keyword
\* pattern, and no null byte, also when a removal joins its surroundings into
\* a new occurrence.
C16_NoThreatLeft ==
    sanitizer.pc = "returned" =>
        \A p \in 0 .. Len(sanitizer.sanitized) - 1 :
            /\ script_injection_end(sanitizer.sanitized, p) < 0
            /\ sql_injection_end(sanitizer.sanitized, p) < 0
            /\ At(sanitizer.sanitized, p) # "NUL"


(***************************************************************************)
(* SecurityValidator.check_resource_limits.                                *)
(* SpecLimits  one call on a content of at most MaxLimitLen characters.    *)
(***************************************************************************)
\* SecurityConfig.max_memory_per_document (500 000 000 bytes), the number of
\* start positions sampled (100) and the number of occurrences a pattern may
\* have (1000), scaled down to the contents of the model.
max_memory_per_document == 50
SampledPositions == 2
RepeatLimit == 1

\* The estimate: 5 x the UTF-8 length.
MemoryFactor == 5

\* len(content.encode('utf-8')): 3 bytes for a CJK character, 1 for ASCII.
RECURSIVE Utf8Len(_)
Utf8Len(t) ==
    IF t = <<>> THEN 0
    ELSE (IF Head(t) = "U+4FDD" THEN 3 ELSE 1) + Utf8Len(Tail(t))

\* content.count(w) from position p on: occurrences that do not overlap.
RECURSIVE str_count(_, _, _)
str_count(t, word, p) ==
    IF p + Len(word) > Len(t) THEN 0
    ELSE IF Slice(t, p, p + Len(word)) = word
    THEN 1 + str_count(t, word, p + Len(word))
    ELSE str_count(t, word, p + 1)

\* for char in ['A', 'a', '1', '0', ' ', '\n']
CheckedCharacters(content) == {"A", "a", "1", "0", " ", "\n"}

\* _detect_repeated_pattern_attack: the event it logs, or "none".
detect_repeated_pattern_attack(content) ==
    IF \E c \in CheckedCharacters(content) :
          10 * str_count(content, <<c>>, 0) > 8 * Len(content)
    THEN "repeated_character_attack"
    ELSE IF \E pattern_len \in 2 .. 5 :
               \E i \in 0 .. Min(SampledPositions, Len(content) - pattern_len) - 1 :
                   str_count(content, Slice(content, i, i + pattern_len), 0) > RepeatLimit
    THEN "repeated_pattern_attack"
    ELSE "none"

\* check_resource_limits: is_within_limits, and the event logged.
check_resource_limits(content) ==
    IF Utf8Len(content) * MemoryFactor > max_memory_per_document
    THEN [ok |-> FALSE, event |-> "memory_limit_exceeded"]
    ELSE [ok |-> detect_repeated_pattern_attack(content) = "none",
          event |-> detect_repeated_pattern_attack(content)]

\* At most this many characters in a content.
MaxLimitLen == 6

LimitContents ==
    UNION {[1 .. n -> {"A", "B", " ", "U+4FDD"}] : n \in 0 .. MaxLimitLen}

InitLimits ==
    /\ EarlierIdle
    /\ IdleExcept("limits")
    /\ limits \in {[pc |-> "called", content |-> c, ok |-> FALSE] : c \in LimitContents}

CheckResourceLimits ==
    /\ limits.pc = "called"
    /\ limits' = [limits EXCEPT !.pc = "returned",
                                !.ok = check_resource_limits(limits.content).ok]
    /\ UNCHANGED <<earliervars, generator, batch_run, pii, sanitizer, validator, encoder, routes>>

SpecLimits == InitLimits /\ [][CheckResourceLimits]_vars

\* C17: a content within the memory ceiling is rejected exactly when one
\* character, whichever it is, makes up more than 80% of its length, or a
\* substring of length 2 to 5 that starts within the sampled positions occurs
\* more than the limit of times.
C17_RepeatedPatternExactly ==
    (limits.pc = "returned"
        /\ Utf8Len(limits.content) * MemoryFactor <= max_memory_per_document) =>
        LET t == limits.content
            one_character ==
                \E c \in {t[i] : i \in 1 .. Len(t)} :
                    10 * Cardinality({i \in 1 .. Len(t) : t[i] = c}) > 8 * Len(t)
            substring ==
                \E n \in 2 .. 5 : \E i \in 0 .. SampledPositions - 1 :
                    /\ i + n <= Len(t)
                    /\ str_count(t, Slice(t, i, i + n), 0) > RepeatLimit
        IN  ~limits.ok <=> (one_character \/ substring)


(***************************************************************************)
(* SecurityValidator and its audit log; the ingestion of one document      *)
(* (DocumentProcessor.load_document, then process_document).               *)
(* SpecSecurity  checks called one after the other on one validator, and   *)
(*            documents ingested through it.                               *)
(***************************************************************************)
\* No call is made once the audit log holds this many events.
MaxEvents == 2

\* What validate_file_path finds of the path, and what
\* validate_file_size_and_type finds of the file.
PathKinds == {"traversal", "unresolvable", "outside", "bad_extension", "valid", "error"}

FileKinds == {"missing", "not_file", "too_large", "empty", "valid", "error"}

\* Contents: clean, with an event handler, with a national id, one character
\* repeated, over the memory estimate, blank.
SecurityContents ==
    {<<"x">>,
     PatternWord.onload \o <<"x">>,
     <<"A", "1", "2", "3", "4", "5", "6", "7", "8", "9">>,
     <<"A", "A", "A", "A", "A">>,
     <<"A", "1", "2", "3", "4", "5", "6", "7", "8", "9", "x">>,
     <<" ">>}

\* The event replaces the log instead of being added to it.
log_security_event_latest_only(v, event_type) ==
    IF ~v.logging THEN v ELSE [v EXCEPT !.audit_events = <<event_type>>]

\* _log_security_event
log_security_event(v, event_type) ==
    IF ~v.logging THEN v ELSE [v EXCEPT !.audit_events = Append(@, event_type)]

\* The validator after a check, with the check's result.
Checked(v, ok, value) == [v |-> v, ok |-> ok, value |-> value]

validate_file_path(v, path) ==
    LET event == CASE path = "traversal"     -> "path_traversal_attempt"
                   [] path = "unresolvable"  -> "path_resolution_failed"
                   [] path = "outside"       -> "unauthorized_directory_access"
                   [] path = "bad_extension" -> "unsupported_file_type"
                   [] path = "valid"         -> "file_path_validated"
                   [] OTHER                  -> "file_validation_error"
    IN  Checked(log_security_event(v, event), path = "valid", <<>>)

validate_file_size_and_type(v, file) ==
    CASE file \in {"missing", "not_file", "empty"} -> Checked(v, FALSE, <<>>)
      [] file = "too_large" -> Checked(log_security_event(v, "file_size_exceeded"), FALSE, <<>>)
      [] file = "valid"     -> Checked(log_security_event(v, "file_size_validated"), TRUE, <<>>)
      [] OTHER -> Checked(log_security_event(v, "file_size_validation_error"), FALSE, <<>>)

\* sanitize_content with its audit event.
sanitize_content_logged(v, content) ==
    LET r == sanitize_content(content)
    IN  Checked(IF r.logged THEN log_security_event(v, "content_sanitized") ELSE v,
                TRUE, r.content)

\* detect_and_mask_pii with its audit event.
detect_and_mask_pii_logged(v, content) ==
    LET r == detect_and_mask_pii(content, v.pii_detection)
    IN  Checked(IF r.kinds # <<>> THEN log_security_event(v, "pii_detected_and_masked")
                ELSE v,
                TRUE, r.masked)

\* check_resource_limits with its audit event.
check_resource_limits_logged(v, content) ==
    LET r == check_resource_limits(content)
    IN  Checked(IF r.event # "none" THEN log_security_event(v, r.event) ELSE v,
                r.ok, content)

\* One call of a check: the check, the log before it, its result.
Called(v, name, r) ==
    [r.v EXCEPT !.check = name, !.pre_events = v.audit_events, !.ok = r.ok,
                !.steps = <<>>, !.error = "none", !.message = "none",
                !.path = "none", !.file = "none", !.returned = "none"]

\* How load_document or process_document ends: the validator, the steps run,
\* the error raised and its message.
Ended(v, steps, error, message) == [v |-> v, steps |-> steps, error |-> error, message |-> message]

\* load_document (with _validate_file_path).  The file is as
\* validate_file_size_and_type found it; "too_large" is a size above both
\* max_file_size and the 10 MB of load_document.
load_document(v, path, file, content) ==
    LET p  == validate_file_path(v, path)
        s1 == <<"validate_path">>
        f  == validate_file_size_and_type(p.v, file)
        s2 == Append(s1, "validate_size_and_type")
    IN  IF ~p.ok THEN Ended(p.v, s1, "ValidationError", "Invalid or unsafe file path")
        ELSE IF ~f.ok THEN Ended(f.v, s2, "ValidationError", "Invalid or unsafe file path")
        ELSE IF file = "missing" THEN Ended(f.v, s2, "ProcessingError", "Document file not found")
        ELSE IF file = "not_file" THEN Ended(f.v, s2, "ProcessingError", "Path is not a file")
        ELSE IF file = "too_large" THEN Ended(f.v, s2, "ProcessingError", "Document file too large")
        ELSE IF IsBlank(content) THEN Ended(f.v, s2, "ProcessingError", "Document file is empty")
        ELSE Ended(f.v, s2, "none", "none")

\* process_document on the content load_document returned.
process_document_steps(v, content, steps) ==
    LET limit  == check_resource_limits_logged(v, content)
        s1     == Append(steps, "check_resource_limits")
        clean  == sanitize_content_logged(limit.v, content)
        masked == detect_and_mask_pii_logged(clean.v, clean.value)
    IN  IF ~limit.ok THEN Ended(limit.v, s1, "SecurityError", "Resource limit exceeded")
        ELSE Ended(masked.v,
                   s1 \o <<"sanitize", "detect_and_mask_pii", "clean", "chunk">>,
                   "none", "none")

\* index_documents_from_file: load_document, then process_document.
ingest_document(v, path, file, content) ==
    LET loaded == load_document(v, path, file, content)
    IN  IF loaded.error # "none" THEN loaded
        ELSE process_document_steps(loaded.v, content, loaded.steps)

\* The validator after a call that ended as r and gave the caller gave.
CallEnded(v, r, name, path, file, gave) ==
    [r.v EXCEPT !.check = name, !.pre_events = v.audit_events,
                !.ok = (gave # "raised"), !.steps = r.steps, !.error = r.error,
                !.message = r.message, !.path = path, !.file = file,
                !.returned = gave]

\* The longest content of white space.
MaxBlankLen == 4

\* Contents that are empty or made of spaces and newlines.
BlankContents == UNION {[1 .. n -> {" ", "\n"}] : n \in 0 .. MaxBlankLen}

\* process_document called on a content that is empty or white space.  Such a
\* content is still white space after sanitize_content and
\* detect_and_mask_pii, clean_text returns the empty text for it at its
\* guard, and chunk_document is called on the empty text.
process_blank_document(v, content) == process_document_steps(v, content, <<>>)

InitSecurity ==
    /\ EarlierIdle
    /\ IdleExcept("validator")
    /\ validator \in {[pc |-> "ready", logging |-> l, pii_detection |-> d,
                       audit_events |-> <<>>, check |-> "none", pre_events |-> <<>>,
                       ok |-> TRUE, steps |-> <<>>, error |-> "none", message |-> "none",
                       path |-> "none", file |-> "none", returned |-> "none"] :
                      l \in BOOLEAN, d \in BOOLEAN}

\* Some caller may use the validator.
CanCall == validator.pc = "ready" /\ Len(validator.audit_events) < MaxEvents

SecurityFrame ==
    UNCHANGED <<earliervars, generator, batch_run, pii, sanitizer, limits, encoder, routes>>

CallValidateFilePath ==
    /\ CanCall
    /\ \E path \in PathKinds :
          validator' = Called(validator, "validate_file_path",
                              validate_file_path(validator, path))
    /\ SecurityFrame

CallValidateFileSizeAndType ==
    /\ CanCall
    /\ \E file \in FileKinds :
          validator' = Called(validator, "validate_file_size_and_type",
                              validate_file_size_and_type(validator, file))
    /\ SecurityFrame

CallSanitizeContent ==
    /\ CanCall
    /\ \E content \in SecurityContents :
          validator' = Called(validator, "sanitize_content",
                              sanitize_content_logged(validator, content))
    /\ SecurityFrame

CallDetectAndMaskPii ==
    /\ CanCall
    /\ \E content \in SecurityContents :
          validator' = Called(validator, "detect_and_mask_pii",
                              detect_and_mask_pii_logged(validator, content))
    /\ SecurityFrame

CallCheckResourceLimits ==
    /\ CanCall
    /\ \E content \in SecurityContents :
          validator' = Called(validator, "check_resource_limits",
                              check_resource_limits_logged(validator, content))
    /\ SecurityFrame

IngestDocument ==
    /\ CanCall
    /\ \E path \in PathKinds, file \in FileKinds, content \in SecurityContents :
          \E r \in {ingest_document(validator, path, file, content)} :
              validator' = CallEnded(validator, r, "ingest", path, file,
                                     IF r.error = "none" THEN "chunk_list" ELSE "raised")
    /\ SecurityFrame

ProcessBlankDocument ==
    /\ CanCall
    /\ \E content \in BlankContents :
          \E r \in {process_blank_document(validator, content)},
             chunks \in {chunk_document(<<>>, TRUE)} :
              validator' = CallEnded(validator, r, "process_document", "none", "none",
                                     IF r.error # "none" \/ chunks.raised THEN "raised"
                                     ELSE IF chunks.chunks = <<>> THEN "empty_list"
                                     ELSE "chunk_list")
    /\ SecurityFrame

NextSecurity ==
    \/ CallValidateFilePath
    \/ CallValidateFileSizeAndType
    \/ CallSanitizeContent
    \/ CallDetectAndMaskPii
    \/ CallCheckResourceLimits
    \/ IngestDocument
    \/ ProcessBlankDocument

SpecSecurity == InitSecurity /\ [][NextSecurity]_vars

IsPrefix(a, b) == Len(a) <= Len(b) /\ SubSeq(b, 1, Len(a)) = a

\* C14: an ingestion runs validate_path, validate_size_and_type, sanitize,
\* detect_and_mask_pii, check_resource_limits, clean, chunk in this order, and
\* stops at the check that fails.
C14_CheckOrder ==
    (validator.pc = "ready" /\ validator.check = "ingest") =>
        /\ IsPrefix(validator.steps,
                    <<"validate_path", "validate_size_and_type", "sanitize",
                      "detect_and_mask_pii", "check_resource_limits", "clean", "chunk">>)
        /\ validator.ok <=> Len(validator.steps) = 7

SecurityChecks ==
    {"validate_file_path", "validate_file_size_and_type", "sanitize_content",
     "detect_and_mask_pii", "check_resource_limits"}

\* One of the checks was called with security logging enabled.
CheckLogged ==
    validator.pc = "ready" /\ validator.logging /\ validator.check \in SecurityChecks

\* C18 as stated: with security logging enabled every call of a check,
\* whatever its outcome, adds at least one event to the audit log, and leaves
\* the events already there as they were.
C18_EveryCheckLogs ==
    CheckLogged =>
        /\ IsPrefix(validator.pre_events, validator.audit_events)
        /\ Len(validator.audit_events) > Len(validator.pre_events)

\* C18 amended: with security logging enabled a call of a check leaves the
\* events already in the log as they were and adds at most one event;
\* validate_file_path adds exactly one, whatever its outcome.
C18_AppendOnly ==
    CheckLogged =>
        /\ IsPrefix(validator.pre_events, validator.audit_events)
        /\ Len(validator.audit_events) <= Len(validator.pre_events) + 1
        /\ validator.check = "validate_file_path"
              => Len(validator.audit_events) = Len(validator.pre_events) + 1

\* A check that logs, called on a log that already holds an event.
C18_Witness ==
    /\ CheckLogged
    /\ validator.pre_events # <<>>
    /\ Len(validator.audit_events) = Len(validator.pre_events) + 1
    /\ validator.check = "check_resource_limits"


(***************************************************************************)
(* EmbeddingService.encode_batch.                                          *)
(* SpecEncode  encode_batch called once on a list of texts; the provider   *)
(*            answers each request with one raw vector per input, or       *)
(*            fails.                                                       *)
(***************************************************************************)
\* The longest list of texts.
MaxTexts == 3

\* Inputs of one request to the provider.
embedding_batch_size == 2

\* Texts: empty, white space, and two texts the provider embeds.
EncodeTexts == {<<>>, <<" ">>, <<"a">>, <<" ", "b">>}

\* Raw vectors of the provider (integer norms 0, 5, 10), and vectors in tenths.
RawVectors == {<<0, 0>>, <<3, 4>>, <<6, 8>>, <<5, 0>>}

norm(v) == CHOOSE n \in 0 .. 10 : n * n = v[1] * v[1] + v[2] * v[2]

\* embedding / norm when the norm is positive, in tenths.
normalize(v) ==
    IF norm(v) > 0 THEN [i \in DOMAIN v |-> (v[i] * 10) \div norm(v)]
    ELSE [i \in DOMAIN v |-> v[i] * 10]

\* np.zeros(get_dimension()), with the dimension of RawVectors.
zero_embedding == <<0, 0>>

\* The positions of the texts that are sent, in order.
RECURSIVE original_indices(_, _)
original_indices(texts, i) ==
    IF i > Len(texts) THEN <<>>
    ELSE IF ~IsBlank(texts[i]) THEN <<i>> \o original_indices(texts, i + 1)
    ELSE original_indices(texts, i + 1)

\* The requests of the loop, one per slice of batch_size texts.
RECURSIVE embed_batches(_, _, _)
embed_batches(non_empty_texts, provider, i) ==
    IF i > Len(non_empty_texts) THEN <<>>
    ELSE LET last  == IF i + embedding_batch_size - 1 < Len(non_empty_texts)
                      THEN i + embedding_batch_size - 1 ELSE Len(non_empty_texts)
             slice == SubSeq(non_empty_texts, i, last)
         IN  [k \in 1 .. Len(slice) |-> normalize(provider[slice[k]])]
             \o embed_batches(non_empty_texts, provider, i + embedding_batch_size)

\* The result list, one vector per position of the input.
RECURSIVE result_embeddings(_, _, _, _)
result_embeddings(texts, indices, all_embeddings, i) ==
    IF i > Len(texts) THEN <<>>
    ELSE IF indices # <<>> /\ Head(indices) = i
         THEN <<Head(all_embeddings)>>
              \o result_embeddings(texts, Tail(indices), Tail(all_embeddings), i + 1)
         ELSE <<zero_embedding>> \o result_embeddings(texts, indices, all_embeddings, i + 1)

encode_batch(texts, provider, provider_fails) ==
    LET indices         == original_indices(texts, 1)
        non_empty_texts == [k \in 1 .. Len(indices) |-> Strip(texts[indices[k]])]
    IN  IF texts = <<>> THEN [raised |-> FALSE, result |-> <<>>]
        ELSE IF non_empty_texts = <<>> THEN [raised |-> TRUE, result |-> <<>>]
        ELSE IF provider_fails THEN [raised |-> TRUE, result |-> <<>>]
        ELSE [raised |-> FALSE,
              result |-> result_embeddings(texts, indices,
                                           embed_batches(non_empty_texts, provider, 1), 1)]

TextLists == UNION {[1 .. n -> EncodeTexts] : n \in 0 .. MaxTexts}

InitEncode ==
    /\ EarlierIdle
    /\ IdleExcept("encoder")
    /\ \E texts \in TextLists, fails \in BOOLEAN,
          provider \in [{Strip(t) : t \in EncodeTexts} \ {<<>>} -> RawVectors] :
          encoder = [pc |-> "called", texts |-> texts, provider |-> provider,
                     provider_fails |-> fails, raised |-> FALSE, result |-> <<>>]

EncodeBatch ==
    /\ encoder.pc = "called"
    /\ LET r == encode_batch(encoder.texts, encoder.provider, encoder.provider_fails)
       IN  encoder' = [encoder EXCEPT !.pc = "returned", !.raised = r.raised,
                                      !.result = r.result]
    /\ UNCHANGED <<earliervars, generator, batch_run, pii, sanitizer, limits, validator, routes>>

SpecEncode == InitEncode /\ [][EncodeBatch]_vars

\* C19: while the provider answers, encode_batch returns one vector per text,
\* in order: the zero vector where the text is empty or white space, the
\* provider's vector re-normalized elsewhere; also when every text is empty.
C19_EncodeBatchShape ==
    (encoder.pc = "returned" /\ ~encoder.provider_fails) =>
        /\ ~encoder.raised
        /\ Len(encoder.result) = Len(encoder.texts)
        /\ \A i \in 1 .. Len(encoder.texts) :
              encoder.result[i] =
                 IF IsBlank(encoder.texts[i]) THEN zero_embedding
                 ELSE normalize(encoder.provider[Strip(encoder.texts[i])])

\* The same, for lists that hold at least one text to embed.
EncodeBatchShapeNonEmpty ==
    (encoder.pc = "returned" /\ ~encoder.provider_fails
       /\ \E i \in 1 .. Len(encoder.texts) : ~IsBlank(encoder.texts[i]))
    => /\ ~encoder.raised
       /\ Len(encoder.result) = Len(encoder.texts)
       /\ \A i \in 1 .. Len(encoder.texts) :
             encoder.result[i] =
                IF IsBlank(encoder.texts[i]) THEN zero_embedding
                ELSE normalize(encoder.provider[Strip(encoder.texts[i])])


\* C21: load_document names the cause of each failure: on a valid path, a
\* file that does not exist gives ProcessingError 'Document file not found', a
\* path that is not a regular file ProcessingError 'Path is not a file', a
\* file above 10 MB ProcessingError 'Document file too large'; ValidationError
\* is raised only for an invalid or unsafe path.
C21_LoadErrorKinds ==
    (validator.pc = "ready" /\ validator.check = "ingest") =>
        /\ (validator.path = "valid" /\ validator.file = "missing")
              => (validator.error = "ProcessingError"
                    /\ validator.message = "Document file not found")
        /\ (validator.path = "valid" /\ validator.file = "not_file")
              => (validator.error = "ProcessingError"
                    /\ validator.message = "Path is not a file")
        /\ (validator.path = "valid" /\ validator.file = "too_large")
              => (validator.error = "ProcessingError"
                    /\ validator.message = "Document file too large")
        /\ validator.error = "ValidationError" => validator.path # "valid"


\* C22: process_document returns an empty list of chunks, and does not raise,
\* for every content that is empty or made of spaces and newlines.
C22_BlankContentNoChunks ==
    (validator.pc = "ready" /\ validator.check = "process_document") =>
        (validator.error = "none" /\ validator.returned = "empty_list")


(***************************************************************************)
(* SpecSplit: one call of _split_long_clause, or of                        *)
(* _fixed_size_chunking_with_metadata, on a clause text longer than        *)
(* chunk_size: a clause header followed by a few segments (a sub-clause    *)
(* marker at the start of a line, runs of letters that make fragments of   *)
(* SubClauseMinLength - 1 and SubClauseMinLength characters, a letter, a   *)
(* blank).                                                                 *)
(***************************************************************************)
MaxSplitSegments == 4

ClauseTexts ==
    LET header   == <<"U+7B2C", "1", "U+689D">>
        segments == {<<"\n", "1", ".">>,
                     [i \in 1 .. SubClauseMinLength - 3 |-> "x"],
                     [i \in 1 .. SubClauseMinLength - 2 |-> "x"],
                     <<"x">>,
                     <<" ">>}
        texts    == {header \o Concat(ss) :
                        ss \in UNION {[1 .. n -> segments] : n \in 0 .. MaxSplitSegments}}
    IN  {t \in texts : Len(t) > chunk_size}

InitSplit ==
    /\ RagInit
    /\ ClassIdle
    /\ LaterIdle
    /\ text \in ClauseTexts
    /\ preserve_structure = TRUE
    /\ chunk_pc = "called"
    /\ chunked = NoChunks

SplitFrame == UNCHANGED <<text, preserve_structure, ragvars, classvars, latervars>>

SplitLongClause ==
    /\ chunk_pc = "called"
    /\ chunked' = [raised |-> FALSE,
                   chunks |-> split_long_clause(text, <<"1">>, <<>>, <<>>, 0),
                   path   |-> IF Len(sub_clause_finditer(text, 0)) > 1
                              THEN "sub_clauses" ELSE "sliding_window"]
    /\ chunk_pc' = "returned"
    /\ SplitFrame

FixedSizeChunking ==
    /\ chunk_pc = "called"
    /\ chunked' = [raised |-> FALSE,
                   chunks |-> fixed_size_chunking_with_metadata(text, <<>>, 0),
                   path   |-> "fixed_size"]
    /\ chunk_pc' = "returned"
    /\ SplitFrame

NextSplit == SplitLongClause \/ FixedSizeChunking

SpecSplit == InitSplit /\ [][NextSplit]_vars

\* The fragment that starts at sub-clause marker i and ends at the next
\* marker (or at the end of the clause), trimmed.
Fragment(t, i) ==
    LET matches == sub_clause_finditer(t, 0)
    IN  Strip(Slice(t, matches[i].start, NextStart(matches, i, t)))

\* C23: a clause longer than chunk_size with at least two sub-clause markers
\* is split at the markers; every fragment of 10 characters or more is
\* emitted, in order, with the number <clause>.<index>, and only the
\* fragments under 10 characters are dropped.
C23_FragmentsOfTenKept ==
    (chunk_pc = "returned" /\ chunked.path = "sub_clauses") =>
        LET n    == Len(sub_clause_finditer(text, 0))
            kept == SelectSeq([i \in 1 .. n |-> i],
                              LAMBDA i : Len(Fragment(text, i)) >= SubClauseMinLength)
        IN  /\ Len(chunked.chunks) = Len(kept)
            /\ \A k \in 1 .. Len(kept) :
                  /\ chunked.chunks[k].content = Fragment(text, kept[k])
                  /\ chunked.chunks[k].clause_number = ClauseNumber(<<"1">>, ".", kept[k])

\* The starts of the windows that are not blank, and the window at a start.
Window(t, p) == Strip(Slice(t, p, Min(p + chunk_size, Len(t))))

WindowStarts(t) ==
    {p \in 0 .. Len(t) - 1 : p % (chunk_size - chunk_overlap) = 0 /\ Window(t, p) # <<>>}

\* C24: for a clause longer than chunk_size with fewer than two sub-clause
\* markers, and for a text chunked by fixed size, the chunks are the
\* non-blank trimmed windows t[p : min(p + chunk_size, len(t))] for p = 0, s,
\* 2s, ... below len(t), s = chunk_size - chunk_overlap, by increasing p,
\* numbered from 0 without gaps.
C24_SlidingWindows ==
    (chunk_pc = "returned" /\ chunked.path \in {"sliding_window", "fixed_size"}) =>
        /\ Len(chunked.chunks) = Cardinality(WindowStarts(text))
        /\ \A k \in 1 .. Len(chunked.chunks) :
              LET p == CHOOSE q \in WindowStarts(text) :
                          Cardinality({r \in WindowStarts(text) : r < q}) = k - 1
              IN  /\ chunked.chunks[k].content = Window(text, p)
                  /\ chunked.chunks[k].clause_number.index = k - 1
                  /\ chunked.chunks[k].clause_number.sep = "_"
                  /\ chunked.chunks[k].char_start = p

\* A clause chunked by the sliding window into three windows, the last one
\* shorter than chunk_size and overlapping the one before.
C24_Witness ==
    /\ chunk_pc = "returned"
    /\ chunked.path = "sliding_window"
    /\ Len(chunked.chunks) >= 3
    /\ chunked.chunks[3].chunk_length < chunk_size
    /\ chunked.chunks[3].char_start < chunked.chunks[2].char_end


(***************************************************************************)
(* SpecSearch: one call of PineconeVectorStore.search; the index answers   *)
(* with at most MaxRawLen matches by descending score.                     *)
(***************************************************************************)
MaxRawLen == 4

InitSearch ==
    /\ ChunkIdle /\ ClassIdle /\ LaterIdle
    /\ is_initialized = TRUE /\ namespace = {} /\ next_uuid = 0 /\ ever_ready = TRUE
    /\ op = "none" /\ outcome = "none" /\ calls = <<>>
    /\ pre_initialized = TRUE /\ pre_namespace = {} /\ upsert_reported = 0
    /\ returned = <<>> /\ blank_question = FALSE
    /\ raw_matches \in {raw \in UNION {[1 .. n -> RawScores] : n \in 0 .. MaxRawLen} :
                           \A i \in 1 .. Len(raw) - 1 : raw[i] >= raw[i + 1]}

Search ==
    /\ op = "none"
    /\ op' = "search"
    /\ outcome' = "ok"
    /\ calls' = <<"search">>
    /\ returned' = search(raw_matches)
    /\ UNCHANGED <<is_initialized, namespace, next_uuid, ever_ready, pre_initialized,
                   pre_namespace, upsert_reported, raw_matches, blank_question,
                   chunkvars, classvars, latervars>>

SpecSearch == InitSearch /\ [][Search]_vars

\* C25: the matches a search returns are by descending score and carry the
\* ranks 1, 2, ..., n without gaps, rank 1 the best returned match, also when
\* the threshold filter has removed raw matches.
C25_RanksWithoutGaps ==
    op = "search" => \A i \in 1 .. Len(returned) :
                        /\ returned[i].rank = i
                        /\ i < Len(returned) => returned[i].score >= returned[i + 1].score

\* Two matches of different scores returned, two more removed by the filter.
C25_Witness ==
    /\ op = "search"
    /\ Len(returned) = 2
    /\ returned[1].score > returned[2].score
    /\ Len(raw_matches) = 4


(***************************************************************************)
(* SpecUpsert: one call of PineconeVectorStore.add_documents with up to    *)
(* MaxUpsertDocs documents, on a namespace that is empty or holds an older *)
(* vector under the id of the first document.                              *)
(***************************************************************************)
MaxUpsertDocs == 6

InitUpsert ==
    /\ ChunkIdle /\ ClassIdle /\ LaterIdle
    /\ is_initialized = FALSE /\ next_uuid = 0 /\ ever_ready = FALSE
    /\ op = "none" /\ outcome = "none" /\ calls = <<>>
    /\ pre_initialized = FALSE /\ pre_namespace = {} /\ upsert_reported = 0
    /\ raw_matches = <<>> /\ returned = <<>> /\ blank_question = FALSE
    /\ namespace \in {{}, {create_chunk([exists |-> TRUE, chunks |-> 1], 1, 0)}}

\* returned holds the list of ids add_documents returned.
AddDocuments ==
    /\ op = "none"
    /\ \E n \in 0 .. MaxUpsertDocs :
         \E outs \in [1 .. NumBatches(n) -> UpsertOutcomes] :
            LET file == [exists |-> TRUE, chunks |-> MaxUpsertDocs + 1]
                a    == add_documents(namespace, [j \in 1 .. n |-> create_chunk(file, j, 0)],
                                      outs)
            IN  /\ op' = "add_documents"
                /\ outcome' = IF a.raised THEN "error" ELSE "ok"
                /\ calls' = [i \in 1 .. NumBatches(n) |-> "upsert"]
                /\ namespace' = a.ns
                /\ pre_namespace' = namespace
                /\ upsert_reported' = a.reported
                /\ returned' = a.added_ids
    /\ UNCHANGED <<is_initialized, next_uuid, ever_ready, pre_initialized, raw_matches,
                   blank_question, chunkvars, classvars, latervars>>

SpecUpsert == InitUpsert /\ [][AddDocuments]_vars

\* C26: add_documents returns exactly the ids of the vectors the index wrote:
\* an id is in the list returned if and only if its vector was upserted, also
\* when a batch is written in part or a later batch fails after earlier ones
\* were written.
C26_ReturnsIdsWritten ==
    op = "add_documents" =>
        LET written == {v.id : v \in namespace \ pre_namespace}
            ids     == IF outcome = "ok" THEN {returned[i] : i \in 1 .. Len(returned)}
                       ELSE {}
        IN  ids = written


(***************************************************************************)
(* SpecStream: one streaming query served by the route /query/stream.      *)
(* Four generators are nested: OpenAIClient.generate_streaming_response,   *)
(* ResponseGenerator.generate_streaming_response, RAGSystem.stream_query   *)
(* and the route's generate_streaming_response.  A generator is the        *)
(* sequence of the items it yields, the value of its return statement and  *)
(* whether it raised; a for loop receives the items yielded and never the  *)
(* value returned.  An item is a text, or one of the objects named below.  *)
(***************************************************************************)
MaxDeltas == 4

\* delta.content of the chunks of the provider's stream: "" is a chunk
\* without content.
DeltaContents == {"", "a", "b"}

StreamObjects == {"metadata", "ChatbotResponse", "None", "RAGSystemError"}

\* isinstance(chunk, str)
IsStr(item) == item \notin StreamObjects

Generator(yields, value, raised) == [yields |-> yields, value |-> value, raised |-> raised]

\* The last item of a for loop over the generator that is not a text, or the
\* value the variable had before the loop.
LastObject(gen, initial) ==
    LET objects == SelectSeq(gen.yields, LAMBDA item : ~IsStr(item))
    IN  IF objects = <<>> THEN initial ELSE objects[Len(objects)]

\* OpenAIClient.generate_streaming_response
llm_generate_streaming_response(deltas, fails) ==
    Generator(SelectSeq(deltas, LAMBDA d : d # ""), "metadata", fails)

\* ResponseGenerator.generate_streaming_response: the texts are passed on, the
\* response is the value of the return statement.
generator_streaming_response(llm) ==
    Generator(SelectSeq(llm.yields, IsStr),
              IF llm.raised THEN "None" ELSE "ChatbotResponse", llm.raised)

\* RAGSystem.stream_query
rag_stream_query(gen) ==
    Generator(SelectSeq(gen.yields, IsStr),
              IF gen.raised THEN "None" ELSE LastObject(gen, "None"), gen.raised)

\* The route's generate_streaming_response: the events sent to the client.
route_streaming_response(stream) ==
    LET texts          == SelectSeq(stream.yields, IsStr)
        final_response == LastObject(stream, "None")
        contents       == [i \in 1 .. Len(texts) |-> [type |-> "content", chunk |-> texts[i],
                                                     chunk_index |-> i]]
    IN  IF stream.raised
        THEN Append(contents, [type |-> "error", chunk |-> "RAGSystemError", chunk_index |-> 0])
        ELSE IF final_response # "None"
        THEN Append(contents, [type |-> "completion", chunk |-> final_response,
                               chunk_index |-> Len(texts)])
        ELSE contents

InitStream ==
    /\ EarlierIdle
    /\ IdleExcept("generator")
    /\ generator \in {[pc |-> "called", deltas |-> d, fails |-> f, events |-> <<>>,
                       final_response |-> "None"] :
                      d \in UNION {[1 .. n -> DeltaContents] : n \in 0 .. MaxDeltas},
                      f \in BOOLEAN}

StreamQuery ==
    /\ generator.pc = "called"
    /\ LET llm    == llm_generate_streaming_response(generator.deltas, generator.fails)
           stream == rag_stream_query(generator_streaming_response(llm))
       IN  generator' = [generator EXCEPT !.pc = "returned",
                                          !.events = route_streaming_response(stream),
                                          !.final_response = stream.value]
    /\ UNCHANGED <<earliervars, batch_run, pii, sanitizer, limits, validator, encoder, routes>>

SpecStream == InitStream /\ [][StreamQuery]_vars

\* C27: a streaming query that does not fail delivers every content chunk of
\* the answer in generation order and, after the last one, the final
\* ChatbotResponse reaches the consumer of stream_query.
C27_FinalResponseDelivered ==
    (generator.pc = "returned" /\ ~generator.fails) =>
        LET texts == SelectSeq(generator.deltas, LAMBDA d : d # "")
            n     == Len(generator.events)
        IN  /\ n = Len(texts) + 1
            /\ \A i \in 1 .. Len(texts) :
                  generator.events[i].type = "content" /\ generator.events[i].chunk = texts[i]
            /\ generator.events[n].type = "completion"
            /\ generator.final_response = "ChatbotResponse"

\* The content chunks alone: they are delivered in generation order.
StreamContentInOrder ==
    (generator.pc = "returned" /\ ~generator.fails) =>
        LET texts == SelectSeq(generator.deltas, LAMBDA d : d # "")
        IN  /\ Len(generator.events) = Len(texts)
            /\ \A i \in 1 .. Len(texts) :
                  generator.events[i].type = "content" /\ generator.events[i].chunk = texts[i]


(***************************************************************************)
(* SpecLoop: the while loop of _fixed_size_chunking_with_metadata (the     *)
(* loop of _sliding_window_chunk is the same), one iteration per step,     *)
(* under a chunk_size / chunk_overlap pair that AppConfig._validate_config *)
(* accepts.  The validation tests neither value, so every pair is          *)
(* accepted.  The text is a run of letters; chunked holds the pair, the    *)
(* position and the iterations made.                                       *)
(***************************************************************************)
MaxLoopLen == 4

MaxChunkSize == 3

\* The iterations are counted modulo MaxIterations, more than a loop that
\* ends can make.
MaxIterations == MaxLoopLen + 2

\* The positions under PositionFloor are not told apart: the test
\* position < text_length reads them all alike.
PositionFloor == 0 - MaxChunkSize

\* _validate_config: no condition on retrieval.chunk_size or chunk_overlap.
validate_config(size, overlap) == TRUE

InitLoop ==
    /\ RagInit
    /\ ClassIdle
    /\ LaterIdle
    /\ text \in {[i \in 1 .. n |-> "x"] : n \in 0 .. MaxLoopLen}
    /\ preserve_structure = FALSE
    /\ chunk_pc = "called"
    /\ chunked \in {[size |-> sz, overlap |-> ov, position |-> 0, iterations |-> 0] :
                    sz \in 1 .. MaxChunkSize, ov \in 0 .. MaxChunkSize}
    /\ validate_config(chunked.size, chunked.overlap)

LoopFrame == UNCHANGED <<text, preserve_structure, ragvars, classvars, latervars>>

\* chunks = [], position = 0
EnterLoop ==
    /\ chunk_pc = "called"
    /\ chunk_pc' = "loop"
    /\ UNCHANGED chunked
    /\ LoopFrame

\* One iteration: the window is appended when it is not blank, and
\* position += chunk_size - chunk_overlap.
LoopStep ==
    /\ chunk_pc = "loop"
    /\ chunked.position < Len(text)
    /\ chunked' = [chunked EXCEPT
                      !.position = Max(@ + chunked.size - chunked.overlap, PositionFloor),
                      !.iterations = (@ + 1) % MaxIterations]
    /\ UNCHANGED chunk_pc
    /\ LoopFrame

\* "while position < text_length" is false: return chunks
LoopExit ==
    /\ chunk_pc = "loop"
    /\ ~(chunked.position < Len(text))
    /\ chunk_pc' = "returned"
    /\ UNCHANGED chunked
    /\ LoopFrame

NextLoop == EnterLoop \/ LoopStep \/ LoopExit

SpecLoop == InitLoop /\ [][NextLoop]_vars /\ WF_vars(NextLoop)

\* C29: the chunking of a text terminates for every chunk_size /
\* chunk_overlap pair that the configuration validation accepts, the pairs
\* with chunk_overlap >= chunk_size included.
C29_ChunkingTerminates == <>(chunk_pc = "returned")

\* With chunk_overlap < chunk_size the loop ends.
PositiveStepTerminates ==
    (chunk_pc = "called" /\ chunked.overlap < chunked.size) ~> (chunk_pc = "returned")


(***************************************************************************)
(* SpecRoutes: the requests of Requests resolve the dependency             *)
(* get_rag_system at the same time.  get_rag_system is a plain def, which  *)
(* the framework runs on a worker thread per request, so the test of the   *)
(* global, the construction, the store and the read that is returned are   *)
(* separate steps of separate threads.  An instance is named by its number *)
(* in order of construction; 0 is None.                                    *)
(***************************************************************************)
MaxRequests == 3

Requests == 1 .. MaxRequests

InitRoutes ==
    /\ EarlierIdle
    /\ IdleExcept("routes")
    /\ routes = [pc |-> [r \in Requests |-> "called"],
                 rag_system |-> 0,
                 instances |-> 0,
                 constructed |-> [r \in Requests |-> 0],
                 given |-> [r \in Requests |-> 0]]

RoutesFrame == UNCHANGED <<earliervars, generator, batch_run, pii, sanitizer, limits,
                           validator, encoder>>

\* if rag_system is None:
TestNone(r) ==
    /\ routes.pc[r] = "called"
    /\ routes' = [routes EXCEPT !.pc[r] = IF routes.rag_system = 0 THEN "construct"
                                          ELSE "return"]
    /\ RoutesFrame

\* RAGSystem(): __init__ builds a new instance, not initialized
RAGSystem(r) ==
    /\ routes.pc[r] = "construct"
    /\ routes' = [routes EXCEPT !.pc[r] = "store",
                                !.instances = @ + 1,
                                !.constructed[r] = routes.instances + 1]
    /\ RoutesFrame

\* rag_system = <the new instance>
StoreGlobal(r) ==
    /\ routes.pc[r] = "store"
    /\ routes' = [routes EXCEPT !.pc[r] = "return",
                                !.rag_system = routes.constructed[r]]
    /\ RoutesFrame

\* return rag_system
get_rag_system(r) ==
    /\ routes.pc[r] = "return"
    /\ routes' = [routes EXCEPT !.pc[r] = "returned",
                                !.given[r] = routes.rag_system]
    /\ RoutesFrame

NextRoutes ==
    \E r \in Requests : TestNone(r) \/ RAGSystem(r) \/ StoreGlobal(r) \/ get_rag_system(r)

SpecRoutes == InitRoutes /\ [][NextRoutes]_vars

\* C30: when several requests call get_rag_system before any instance
\* exists, at most one RAGSystem is constructed and every request is given
\* that same instance.
C30_OneInstance ==
    /\ routes.instances <= 1
    /\ \A r1 \in Requests, r2 \in Requests :
          routes.pc[r1] = "returned" /\ routes.pc[r2] = "returned"
              => routes.given[r1] = routes.given[r2]

\* Every request is given an instance, never None.
GivenAnInstance ==
    \A r \in Requests : routes.pc[r] = "returned" => routes.given[r] \in 1 .. routes.instances


====
